---- MODULE Spec2Model ----
(***************************************************************************)
(* A model of the analytical core of quark-engine:                         *)
(*   - ApkPatcher (quark/core/apkpatcher.py): the in-place ZIP repair,     *)
(*     over a byte image, one action per step of ApkPatcher.patch;         *)
(*   - the value-node graph (quark/core/struct/valuenode.py): the          *)
(*     iterative resolver and its identity-keyed, weakly held cache, and   *)
(*     the breadth-first generator iteratePriorNodes;                      *)
(*   - TableObject and RegisterObject (quark/core/struct);                 *)
(*   - DexTraceImp._build_graph and lowerfunc (dextraceapkinfo.py);        *)
(*   - PyEval (quark/evaluator/pyeval.py): invoke, move-result,            *)
(*     const-string and filled-new-array over the register table.          *)
(* An image is a sequence of bytes; the byte at offset o is img[o + 1].    *)
(***************************************************************************)
EXTENDS Integers, Sequences, FiniteSets, TLC

VARIABLES
    \* ---- ApkPatcher ----
    img,                  \* raw_data: the memory-mapped image
    orig,                 \* the image as it was when the current patch call began
    pc,                   \* position inside ApkPatcher.patch
    calls,                \* patch calls started so far
    ret,                  \* value returned by the last finished patch call
    raised,               \* whether the last call swallowed an exception
    outcome,              \* "returned" or "propagated" for the last call
    eocd_offset,          \* local of patch
    cdh_count,            \* local of patch
    cdh_start_offset,     \* local of patch
    current_offset,       \* cursor of the running _iter_cdh generator
    remaining,            \* iterations the running _iter_cdh generator has left
    compression_patched,  \* isPatched of _patch_invalid_compression_method
    manifest_patched,     \* is_patched of _patch_manifest_signature
    visitedC,             \* entries yielded to the invalid-compression pass
    visitedM,             \* entries yielded to the manifest-signature pass
    \* ---- value nodes ----
    heap,                 \* node identity -> node
    cache,                \* __resolvedCache: identity -> resolved string
    stack,                \* the stack of iterativeResolve
    rpc,                  \* position of the running resolve call
    rroot,                \* node of the running / last resolve call
    rflag,                \* evaluateArgs of the running / last resolve call
    rresult,              \* string returned by the last resolve call
    rcalls,               \* resolve calls started so far
    returned,             \* the <<node, flag, string>> results resolve has returned
    \* ---- iteratePriorNodes ----
    queue,                \* the deque of the running generator
    visited,              \* identities the generator has expanded
    yielded,              \* the nodes yielded so far, in order
    ipc,                  \* position of the generator: "idle", "running", "done"
    iroot,                \* node the generator was started on
    itype,                \* nodeType the generator filters on
    isteps,               \* loop iterations of the generator so far
    \* ---- TableObject ----
    hash_table,           \* one list of observations per register
    tpc,                  \* "none" before TableObject(count_reg), then "ready"
    tlog,                 \* the insert calls so far, <<index, var_obj>> in order
    tread,                \* the last read call and what it gave
    \* ---- DexTraceImp ----
    api_calls,            \* the call report handed to _build_graph
    per_caller,           \* caller_sig -> [(offset, callee_sig)], in dict order
    calls_by_caller,      \* _calls_by_caller: MethodObject -> [(callee, order)]
    callers_by_callee,    \* _callers_by_callee, as <<callee, caller>> pairs
    method_by_sig,        \* _method_by_sig: the MethodObjects registered
    cpc,                  \* "none", "collect", "group", "built"
    ci,                   \* index of the loop that is running
    \* ---- PyEval ----
    table_obj,            \* the register table: one list of RegisterObjects per register
    ret_stack,            \* the value node the last call or array expression returned
    ret_type,             \* the type that goes with ret_stack
    enodes,               \* the value nodes PyEval has built; identity is the position
    epc,                  \* "none" before PyEval(apkinfo), then "ready"
    ecount,               \* instructions evaluated so far
    elast,                \* the last instruction evaluated
    eprev,                \* table_obj, ret_stack and enodes before that instruction
    \* ---- RegisterObject ----
    reg,                  \* the RegisterObject: _value, _called_by_func, _current_type
    gpc,                  \* "none" before RegisterObject(...), then "ready"
    gops,                 \* operations on the RegisterObject so far
    glast,                \* the last operation and what it gave
    gprev                 \* reg before that operation

patchVars == <<img, orig, pc, calls, ret, raised, outcome, eocd_offset, cdh_count,
               cdh_start_offset, current_offset, remaining, compression_patched,
               manifest_patched, visitedC, visitedM>>
nodeVars == <<heap, cache, stack, rpc, rroot, rflag, rresult, rcalls, returned>>
iterVars == <<queue, visited, yielded, ipc, iroot, itype, isteps>>
tableVars == <<hash_table, tpc, tlog, tread>>
callVars == <<api_calls, per_caller, calls_by_caller, callers_by_callee,
              method_by_sig, cpc, ci>>
evalVars == <<table_obj, ret_stack, ret_type, enodes, epc, ecount, elast, eprev>>
regVars == <<reg, gpc, gops, glast, gprev>>
restVars == <<iterVars, tableVars, callVars, evalVars, regVars>>
vars == <<patchVars, nodeVars, restVars>>

\* ------------------------------------------------------------------------
\* Bounds of the model.
MaxPatchCalls == 2
MaxResolveCalls == 3
MaxIterSteps == 12
MaxInserts == 3
MaxCalls == 3
MaxInstructions == 4
MaxRegisterOps == 3

\* ------------------------------------------------------------------------
\* Bytes, struct.unpack_from / struct.pack_into, slices.

Min(a, b) == IF a < b THEN a ELSE b

\* struct raises struct.error unless the buffer holds size bytes at offset.
InBuffer(raw_data, offset, size) == offset >= 0 /\ offset + size <= Len(raw_data)

ByteAt(raw_data, offset) == raw_data[offset + 1]

\* raw_data[a:b]: a slice is clamped to the buffer and never raises.
Slice(raw_data, a, b) ==
    SubSeq(raw_data, Min(a, Len(raw_data)) + 1, Min(b, Len(raw_data)))

\* struct.unpack_from("<H", raw_data, offset)
unpack_H(raw_data, offset) ==
    ByteAt(raw_data, offset) + 256 * ByteAt(raw_data, offset + 1)

\* The four bytes struct.unpack_from("<I", ...) reads, kept exact.
Bytes4(raw_data, offset) ==
    <<ByteAt(raw_data, offset), ByteAt(raw_data, offset + 1),
      ByteAt(raw_data, offset + 2), ByteAt(raw_data, offset + 3)>>

\* The little-endian value of four bytes. The code uses a 32-bit value either
\* as an offset or a length compared with the image length, or copies it to
\* another field (done here on the exact bytes); values of 2^30 and more are
\* all beyond any image of the model and are represented by 2^30.
U32(b) ==
    IF b[4] >= 64 THEN 1073741824
    ELSE b[1] + 256 * b[2] + 65536 * b[3] + 16777216 * b[4]

\* struct.unpack_from("<I", raw_data, offset) as a number
unpack_I(raw_data, offset) == U32(Bytes4(raw_data, offset))

\* struct.pack_into("<H", raw_data, offset, value)
pack_H(raw_data, offset, value) ==
    [raw_data EXCEPT ![offset + 1] = value % 256,
                     ![offset + 2] = (value \div 256) % 256]

\* struct.pack_into("<I", raw_data, offset, value), value given as its bytes
pack_I(raw_data, offset, b) ==
    [raw_data EXCEPT ![offset + 1] = b[1], ![offset + 2] = b[2],
                     ![offset + 3] = b[3], ![offset + 4] = b[4]]

LE16(n) == <<n % 256, (n \div 256) % 256>>
LE32(n) == <<n % 256, (n \div 256) % 256, (n \div 65536) % 256, (n \div 16777216) % 256>>

\* ------------------------------------------------------------------------
\* zlib.crc32 (CRC-32, reflected polynomial EDB88320), on a 32-bit register
\* kept as two 16-bit halves <<hi, lo>>.

RECURSIVE Xor(_, _)
Xor(a, b) ==
    IF a = 0 THEN b
    ELSE IF b = 0 THEN a
    ELSE ((a + b) % 2) + 2 * Xor(a \div 2, b \div 2)

CrcShift(c) ==
    LET hi == c[1] \div 2
        lo == (c[2] \div 2) + 32768 * (c[1] % 2)
    IN  IF c[2] % 2 = 1 THEN <<Xor(hi, 60856), Xor(lo, 33568)>> ELSE <<hi, lo>>

\* the table of zlib's byte-wise algorithm: entry n is n shifted out eight times
CrcTable ==
    [n \in 0 .. 255 |->
        CrcShift(CrcShift(CrcShift(CrcShift(CrcShift(CrcShift(CrcShift(CrcShift(
            <<0, n>>))))))))]

\* c := table[(c ^ b) & 0xFF] ^ (c >> 8)
CrcByte(c, b) ==
    LET t == CrcTable[Xor(c[2] % 256, b)]
    IN  <<Xor(c[1] \div 256, t[1]), Xor((c[2] \div 256) + 256 * (c[1] % 256), t[2])>>

RECURSIVE CrcBytes(_, _, _)
CrcBytes(c, data, i) ==
    IF i > Len(data) THEN c ELSE CrcBytes(CrcByte(c, data[i]), data, i + 1)

CrcNot(c) == <<65535 - c[1], 65535 - c[2]>>

\* zlib.crc32(chunk, value): value and result as <<hi, lo>>
zlib_crc32(chunk, value) == CrcNot(CrcBytes(CrcNot(value), chunk, 1))

\* the four little-endian bytes of a register <<hi, lo>>
CrcLE(c) == <<c[2] % 256, c[2] \div 256, c[1] % 256, c[1] \div 256>>

\* ------------------------------------------------------------------------
\* Constants of apkpatcher.py.

EOCD_SIGNATURE == <<80, 75, 5, 6>>
CDH_SIGNATURE == <<80, 75, 1, 2>>
LFH_SIGNATURE == <<80, 75, 3, 4>>
VALID_COMPRESSION_METHODS == (0 .. 20) \cup (93 .. 99)

\* "AndroidManifest.xml".encode("utf-8")
expected_file_name ==
    <<65, 110, 100, 114, 111, 105, 100, 77, 97, 110, 105, 102, 101, 115, 116,
      46, 120, 109, 108>>

\* ------------------------------------------------------------------------
\* ApkPatcher._find_eocd and ApkPatcher._parse_eocd

\* the offsets at which sub occurs in raw_data
Occurrences(raw_data, sub) ==
    {o \in 0 .. Len(raw_data) - Len(sub) :
        \A i \in 1 .. Len(sub) : raw_data[o + i] = sub[i]}

\* raw_data.rfind(sub): the highest offset at which sub occurs, or -1
rfind(raw_data, sub) ==
    LET S == Occurrences(raw_data, sub)
    IN  IF S = {} THEN -1 ELSE CHOOSE o \in S : \A p \in S : p <= o

\* (mutant) raw_data.find(sub): the lowest offset instead of the highest
_find_eocd_leftmost(raw_data) ==
    LET S == Occurrences(raw_data, EOCD_SIGNATURE)
    IN  IF S = {} THEN -1 ELSE CHOOSE o \in S : \A p \in S : p >= o

\* _find_eocd: the offset, or -1 where the code raises ValueError
_find_eocd(raw_data) == rfind(raw_data, EOCD_SIGNATURE)

\* _parse_eocd: struct.error when a field lies outside the buffer
_parse_eocd(raw_data, eocd) ==
    IF ~InBuffer(raw_data, eocd + 10, 2) \/ ~InBuffer(raw_data, eocd + 16, 4)
    THEN [raised |-> TRUE, cdh_count |-> 0, cdh_start_offset |-> 0]
    ELSE [raised |-> FALSE,
          cdh_count |-> unpack_H(raw_data, eocd + 10),
          cdh_start_offset |-> unpack_I(raw_data, eocd + 16)]

\* ------------------------------------------------------------------------
\* ApkPatcher._iter_cdh: what the generator does before and after a yield.

\* the flag yielded with the cursor
is_valid_signature(raw_data, cur) == Slice(raw_data, cur, cur + 4) = CDH_SIGNATURE

\* (mutant) the comment is not skipped
_iter_cdh_advance_no_comment(raw_data, cur) ==
    IF ~InBuffer(raw_data, cur + 28, 2) \/ ~InBuffer(raw_data, cur + 30, 2)
       \/ ~InBuffer(raw_data, cur + 32, 2)
    THEN [raised |-> TRUE, next |-> cur]
    ELSE [raised |-> FALSE,
          next |-> cur + 46 + unpack_H(raw_data, cur + 28)
                   + unpack_H(raw_data, cur + 30)]

\* the resumption after a yield: read the three lengths, advance the cursor
_iter_cdh_advance(raw_data, cur) ==
    IF ~InBuffer(raw_data, cur + 28, 2) \/ ~InBuffer(raw_data, cur + 30, 2)
       \/ ~InBuffer(raw_data, cur + 32, 2)
    THEN [raised |-> TRUE, next |-> cur]
    ELSE [raised |-> FALSE,
          next |-> cur + 46 + unpack_H(raw_data, cur + 28)
                   + unpack_H(raw_data, cur + 30) + unpack_H(raw_data, cur + 32)]

\* ------------------------------------------------------------------------
\* The loop body of ApkPatcher._patch_invalid_compression_method for the
\* entry at cur. The writes made before a raise stay in the image.

\* (mutant) the header fields are patched in the CDH only, the LFH is left alone
CompressionWritesCdhOnly(raw_data, cur, lfh) ==
    LET r1 == pack_H(raw_data, cur + 10, 0)
        uncompressed_size == Bytes4(r1, cur + 24)
    IN  [img |-> pack_I(r1, cur + 20, uncompressed_size), raised |-> FALSE]

\* (mutant) the method is reset but the compressed size is written at CDH+12
CompressionWritesWrongField(raw_data, cur, lfh) ==
    LET r1 == pack_H(raw_data, cur + 10, 0)
        uncompressed_size == Bytes4(r1, cur + 24)
        r2 == pack_I(r1, cur + 12, uncompressed_size)
    IN  IF ~InBuffer(r2, lfh + 8, 2) THEN [img |-> r2, raised |-> TRUE]
        ELSE LET r3 == pack_H(r2, lfh + 8, 0)
             IN  IF ~InBuffer(r3, lfh + 18, 4) THEN [img |-> r3, raised |-> TRUE]
                 ELSE [img |-> pack_I(r3, lfh + 18, uncompressed_size),
                       raised |-> FALSE]

\* lines 183-211: the writes for an entry whose method is invalid
CompressionWrites(raw_data, cur, lfh) ==
    LET r1 == pack_H(raw_data, cur + 10, 0)
        uncompressed_size == Bytes4(r1, cur + 24)
        r2 == pack_I(r1, cur + 20, uncompressed_size)
    IN  IF ~InBuffer(r2, lfh + 8, 2) THEN [img |-> r2, raised |-> TRUE]
        ELSE LET r3 == pack_H(r2, lfh + 8, 0)
             IN  IF ~InBuffer(r3, lfh + 18, 4) THEN [img |-> r3, raised |-> TRUE]
                 ELSE [img |-> pack_I(r3, lfh + 18, uncompressed_size),
                       raised |-> FALSE]

CompressionBody(raw_data, cur) ==
    IF ~InBuffer(raw_data, cur + 10, 2) \/ ~InBuffer(raw_data, cur + 42, 4)
    THEN [img |-> raw_data, raised |-> TRUE, patched |-> FALSE, lfh |-> -1]
    ELSE LET compression_method == unpack_H(raw_data, cur + 10)
             lfh_offset == unpack_I(raw_data, cur + 42)
         IN  IF compression_method \in VALID_COMPRESSION_METHODS
             THEN [img |-> raw_data, raised |-> FALSE, patched |-> FALSE,
                   lfh |-> lfh_offset]
             ELSE LET w == CompressionWrites(raw_data, cur, lfh_offset)
                  IN  [img |-> w.img, raised |-> w.raised, patched |-> TRUE,
                       lfh |-> lfh_offset]

\* ------------------------------------------------------------------------
\* The loop body of ApkPatcher._patch_manifest_signature for the entry at cur.

\* lines 312-320: the CRC of the uncompressed_size bytes at data_offset, in
\* chunks of 65536; a chunk that starts at or after the end of the image is
\* empty and leaves the CRC as it is, as do all chunks after it.
RECURSIVE CrcChunks(_, _, _, _, _)
CrcChunks(raw_data, data_offset, uncompressed_size, i, crc) ==
    IF i >= uncompressed_size \/ data_offset + i >= Len(raw_data) THEN crc
    ELSE CrcChunks(raw_data, data_offset, uncompressed_size, i + 65536,
                   zlib_crc32(Slice(raw_data, data_offset + i,
                                    data_offset + Min(i + 65536, uncompressed_size)),
                              crc))

\* (mutant) the CRC is taken before the first byte is overwritten
ManifestWritesStaleCrc(raw_data, cur, lfh, data_offset, uncompressed_size) ==
    LET new_crc == CrcLE(CrcChunks(raw_data, data_offset, uncompressed_size, 0, <<0, 0>>))
        r1 == [raw_data EXCEPT ![data_offset + 1] = 3]
        r2 == pack_I(r1, cur + 16, new_crc)
    IN  pack_I(r2, lfh + 14, new_crc)

\* lines 308-328: overwrite the first data byte, refresh both CRC fields
ManifestWrites(raw_data, cur, lfh, data_offset, uncompressed_size) ==
    LET r1 == [raw_data EXCEPT ![data_offset + 1] = 3]
        new_crc == CrcLE(CrcChunks(r1, data_offset, uncompressed_size, 0, <<0, 0>>))
        r2 == pack_I(r1, cur + 16, new_crc)
    IN  pack_I(r2, lfh + 14, new_crc)

ManifestSkip(raw_data, ctl, isRaised) ==
    [img |-> raw_data, raised |-> isRaised, patched |-> FALSE, ctl |-> ctl,
     lfh |-> -1, data |-> -1, matched |-> FALSE]

ManifestBody(raw_data, cur) ==
    IF Slice(raw_data, cur + 46, cur + 46 + Len(expected_file_name)) # expected_file_name
    THEN ManifestSkip(raw_data, "continue", FALSE)
    ELSE IF ~InBuffer(raw_data, cur + 10, 2) THEN ManifestSkip(raw_data, "raise", TRUE)
    ELSE IF unpack_H(raw_data, cur + 10) # 0 THEN ManifestSkip(raw_data, "continue", FALSE)
    ELSE IF ~InBuffer(raw_data, cur + 42, 4) \/ ~InBuffer(raw_data, cur + 24, 4)
    THEN ManifestSkip(raw_data, "raise", TRUE)
    ELSE
      LET lfh_offset == unpack_I(raw_data, cur + 42)
          uncompressed_size == unpack_I(raw_data, cur + 24)
      IN  IF ~InBuffer(raw_data, lfh_offset + 26, 2) \/ ~InBuffer(raw_data, lfh_offset + 28, 2)
          THEN [ManifestSkip(raw_data, "raise", TRUE) EXCEPT !.lfh = lfh_offset,
                                                             !.matched = TRUE]
          ELSE
            LET data_offset == lfh_offset + 30 + unpack_H(raw_data, lfh_offset + 26)
                               + unpack_H(raw_data, lfh_offset + 28)
            IN  IF data_offset >= Len(raw_data)      \* raw_data[data_offset]: IndexError
                THEN [ManifestSkip(raw_data, "raise", TRUE) EXCEPT !.lfh = lfh_offset,
                                                                   !.matched = TRUE]
                ELSE IF ByteAt(raw_data, data_offset) = 3
                THEN [img |-> raw_data, raised |-> FALSE, patched |-> FALSE,
                      ctl |-> "break", lfh |-> lfh_offset, data |-> data_offset,
                      matched |-> TRUE]
                ELSE [img |-> ManifestWrites(raw_data, cur, lfh_offset, data_offset,
                                             uncompressed_size),
                      raised |-> FALSE, patched |-> TRUE, ctl |-> "break",
                      lfh |-> lfh_offset, data |-> data_offset, matched |-> TRUE]

\* ------------------------------------------------------------------------
\* ApkPatcher.patch, lines 69-71: except BaseException: log, return False.

\* (mutant) the error is re-raised
PatchExceptPropagates(isPatched) == [outcome |-> "propagated", ret |-> FALSE]

PatchExcept(isPatched) == [outcome |-> "returned", ret |-> FALSE]

\* ------------------------------------------------------------------------
\* Input images. An image is laid out as a ZIP file: one local record (LFH,
\* name, data) per entry, the central directory (one CDH per entry), the
\* EOCD record. Each entry is drawn from EntryKinds; one anomaly may be
\* applied to one entry, or one to the EOCD record.

EntryKinds ==
    [name : {"manifest"}, method : {0, 8, 65535}, first : {0, 3}]
    \cup [name : {"other"}, method : {0, 8, 65535}, first : {0}]

EntryAnomalies ==
    {"lfh_oob", "lfh_alias", "usize0", "bad_cdh_sig", "bad_lfh_sig", "stale_crc",
     "csize_mismatch", "longer_name", "cdh_tail", "lfh_on_lengths"}

EocdAnomalies ==
    {"missing", "decoy_before", "decoy_after", "overcount", "start_oob", "lfh_huge"}

EntryCounts == {1, 2}

\* "classes.dex"
other_file_name == <<99, 108, 97, 115, 115, 101, 115, 46, 100, 101, 120>>

Anom(a, k, what) == a.kind = what /\ a.target = k

EntryName(es, a, k) ==
    IF es[k].name = "manifest"
    THEN IF Anom(a, k, "longer_name") THEN expected_file_name \o <<88>>
         ELSE expected_file_name
    ELSE other_file_name

EntryData(es, k) == <<es[k].first, 0, 8, 0>>

LocalSize(es, a, k) == 30 + Len(EntryName(es, a, k)) + Len(EntryData(es, k))

RECURSIVE LfhOff(_, _, _)
LfhOff(es, a, k) == IF k = 1 THEN 0 ELSE LfhOff(es, a, k - 1) + LocalSize(es, a, k - 1)

CdStart(es, a) == LfhOff(es, a, Len(es) + 1)

\* the extra field and the comment of the CDH of entry k
EntryExtra(a, k) == IF Anom(a, k, "cdh_tail") THEN <<7, 7>> ELSE <<>>
EntryComment(a, k) == IF Anom(a, k, "cdh_tail") THEN <<9>> ELSE <<>>

RECURSIVE CdhOff(_, _, _)
CdhOff(es, a, k) ==
    IF k = 1 THEN CdStart(es, a)
    ELSE CdhOff(es, a, k - 1) + 46 + Len(EntryName(es, a, k - 1))
         + Len(EntryExtra(a, k - 1)) + Len(EntryComment(a, k - 1))

EntryUsize(es, a, k) ==
    IF Anom(a, k, "usize0") THEN 0
    ELSE IF Anom(a, k, "lfh_alias") THEN 300
    ELSE Len(EntryData(es, k))

EntryCsize(es, a, k) ==
    IF Anom(a, k, "csize_mismatch") THEN 2 ELSE EntryUsize(es, a, k)

EntryCrc(es, a, k) ==
    IF Anom(a, k, "stale_crc") THEN <<1, 2, 3, 4>>
    ELSE CrcLE(zlib_crc32(EntryData(es, k), <<0, 0>>))

\* the LFH offset stored in the CDH: the true one, one beyond the image, or
\* one that lays the LFH over the first CDH (LFH+18 falls on its CDH+10, or
\* on its CDH+28, the length fields)
EntryLfhField(es, a, k) ==
    IF Anom(a, k, "lfh_oob") THEN <<255, 255, 0, 0>>
    ELSE IF Anom(a, k, "lfh_alias") THEN LE32(CdhOff(es, a, 1) - 8)
    ELSE IF Anom(a, k, "lfh_on_lengths") THEN LE32(CdhOff(es, a, 1) + 10)
    ELSE IF a.kind = "lfh_huge" /\ k = 1 THEN <<255, 255, 255, 255>>
    ELSE LE32(LfhOff(es, a, k))

LocalRecord(es, a, k) ==
    (IF Anom(a, k, "bad_lfh_sig") THEN <<80, 75, 3, 5>> ELSE LFH_SIGNATURE)
    \o <<20, 0, 0, 0>> \o LE16(es[k].method) \o <<0, 0, 0, 0>>
    \o EntryCrc(es, a, k) \o LE32(EntryCsize(es, a, k)) \o LE32(EntryUsize(es, a, k))
    \o LE16(Len(EntryName(es, a, k))) \o LE16(0)
    \o EntryName(es, a, k) \o EntryData(es, k)

CentralRecord(es, a, k) ==
    (IF Anom(a, k, "bad_cdh_sig") THEN <<80, 75, 1, 3>> ELSE CDH_SIGNATURE)
    \o <<20, 0, 20, 0, 0, 0>> \o LE16(es[k].method) \o <<0, 0, 0, 0>>
    \o EntryCrc(es, a, k) \o LE32(EntryCsize(es, a, k)) \o LE32(EntryUsize(es, a, k))
    \o LE16(Len(EntryName(es, a, k))) \o LE16(Len(EntryExtra(a, k)))
    \o LE16(Len(EntryComment(a, k)))
    \o <<0, 0, 0, 0, 0, 0, 0, 0>> \o EntryLfhField(es, a, k)
    \o EntryName(es, a, k) \o EntryExtra(a, k) \o EntryComment(a, k)

RECURSIVE Records(_, _, _, _)
Records(es, a, k, central) ==
    IF k > Len(es) THEN <<>>
    ELSE (IF central THEN CentralRecord(es, a, k) ELSE LocalRecord(es, a, k))
         \o Records(es, a, k + 1, central)

EocdRecord(sig, count, start) ==
    sig \o <<0, 0, 0, 0>> \o LE16(count) \o LE16(count) \o <<0, 0, 0, 0>>
    \o LE32(start) \o <<0, 0>>

BuildImage(es, a) ==
    Records(es, a, 1, FALSE) \o Records(es, a, 1, TRUE)
    \o (IF a.kind = "decoy_before" THEN EocdRecord(EOCD_SIGNATURE, 0, 0) ELSE <<>>)
    \o EocdRecord(IF a.kind = "missing" THEN <<80, 75, 5, 7>> ELSE EOCD_SIGNATURE,
                  IF a.kind = "overcount" THEN Len(es) + 1 ELSE Len(es),
                  IF a.kind = "start_oob" THEN 65535 ELSE CdStart(es, a))
    \o (IF a.kind = "decoy_after" THEN EOCD_SIGNATURE ELSE <<>>)

EntrySeqs == UNION {[1 .. n -> EntryKinds] : n \in EntryCounts}

AnomaliesFor(es) ==
    {[kind |-> "none", target |-> 0]}
    \cup [kind : EntryAnomalies, target : 1 .. Len(es)]
    \cup [kind : EocdAnomalies, target : {0}]


\* ------------------------------------------------------------------------
\* ApkPatcher.patch as a state machine.

\* the parts of the program that are not running: the generator has not been
\* started, no table has been built
IterInitIdle ==
    /\ queue = <<>> /\ visited = {} /\ yielded = <<>> /\ ipc = "idle"
    /\ iroot = 0 /\ itype = "None" /\ isteps = 0

TableInitIdle ==
    /\ hash_table = <<>> /\ tpc = "none" /\ tlog = <<>>
    /\ tread = [op |-> "none", index |-> 0, outcome |-> "none", value |-> <<>>]

CallsInitIdle ==
    /\ api_calls = <<>> /\ per_caller = <<>> /\ calls_by_caller = <<>>
    /\ callers_by_callee = {} /\ method_by_sig = {} /\ cpc = "none" /\ ci = 0

NoInstruction ==
    [op |-> "none", regs |-> <<>>, dest |-> 0, sig |-> <<>>, node |-> 0]

EvalInitIdle ==
    /\ table_obj = <<>> /\ ret_stack = <<>> /\ ret_type = <<>> /\ enodes = <<>>
    /\ epc = "none" /\ ecount = 0 /\ elast = NoInstruction
    /\ eprev = [table_obj |-> <<>>, ret_stack |-> <<>>, enodes |-> <<>>]

NoRegister == [value |-> 0, called_by_func |-> <<>>, current_type |-> <<>>]

NoOperation == [op |-> "none", arg |-> 0, flag |-> FALSE, out |-> <<>>]

RegisterInitIdle ==
    /\ reg = NoRegister /\ gpc = "none" /\ gops = 0 /\ glast = NoOperation
    /\ gprev = NoRegister

RestInitIdle ==
    IterInitIdle /\ TableInitIdle /\ CallsInitIdle /\ EvalInitIdle /\ RegisterInitIdle

NoNodeStep == UNCHANGED <<nodeVars, restVars>>

\* the call: locals are fresh, the image is the one the previous call left
PatchCall ==
    /\ pc \in {"idle", "done"}
    /\ calls < MaxPatchCalls
    /\ pc' = "find_eocd"
    /\ calls' = calls + 1
    /\ orig' = img
    /\ ret' = FALSE /\ raised' = FALSE /\ outcome' = "running"
    /\ eocd_offset' = -1 /\ cdh_count' = 0 /\ cdh_start_offset' = 0
    /\ current_offset' = 0 /\ remaining' = 0
    /\ compression_patched' = FALSE /\ manifest_patched' = FALSE
    /\ visitedC' = <<>> /\ visitedM' = <<>>
    /\ UNCHANGED img
    /\ NoNodeStep

\* the except clause of patch, entered from any step that raised
Swallow(isPatched) ==
    /\ pc' = "done"
    /\ raised' = TRUE
    /\ outcome' = PatchExcept(isPatched).outcome
    /\ ret' = PatchExcept(isPatched).ret

\* line 57
FindEocd ==
    /\ pc = "find_eocd"
    /\ LET o == _find_eocd(img)
       IN  /\ eocd_offset' = o
           /\ IF o = -1
              THEN Swallow(FALSE)
              ELSE pc' = "parse_eocd" /\ UNCHANGED <<raised, outcome, ret>>
    /\ UNCHANGED <<img, orig, calls, cdh_count, cdh_start_offset, current_offset,
                   remaining, compression_patched, manifest_patched, visitedC, visitedM>>
    /\ NoNodeStep

\* lines 58-60, and the start of the first _iter_cdh generator
ParseEocd ==
    /\ pc = "parse_eocd"
    /\ LET r == _parse_eocd(img, eocd_offset)
       IN  /\ cdh_count' = r.cdh_count
           /\ cdh_start_offset' = r.cdh_start_offset
           /\ current_offset' = r.cdh_start_offset
           /\ remaining' = r.cdh_count
           /\ IF r.raised
              THEN Swallow(FALSE)
              ELSE pc' = "compression" /\ UNCHANGED <<raised, outcome, ret>>
    /\ UNCHANGED <<img, orig, calls, eocd_offset, compression_patched,
                   manifest_patched, visitedC, visitedM>>
    /\ NoNodeStep

\* one iteration of the loop of _patch_invalid_compression_method: the entry
\* is yielded, the body runs, the generator resumes and advances the cursor
CompressionStep ==
    /\ pc = "compression" /\ remaining > 0
    /\ LET b == CompressionBody(img, current_offset)
           adv == _iter_cdh_advance(b.img, current_offset)
           isPatched == compression_patched \/ b.patched
       IN  /\ img' = b.img
           /\ compression_patched' = isPatched
           /\ visitedC' = Append(visitedC,
                                 [cdh |-> current_offset, lfh |-> b.lfh,
                                  sig |-> is_valid_signature(img, current_offset),
                                  patched |-> b.patched])
           /\ IF b.raised \/ adv.raised
              THEN Swallow(isPatched) /\ UNCHANGED <<current_offset, remaining>>
              ELSE /\ current_offset' = adv.next
                   /\ remaining' = remaining - 1
                   /\ UNCHANGED <<pc, raised, outcome, ret>>
    /\ UNCHANGED <<orig, calls, eocd_offset, cdh_count, cdh_start_offset,
                   manifest_patched, visitedM>>
    /\ NoNodeStep

\* line 213 and line 64: the first pass returns, the second generator starts
CompressionReturn ==
    /\ pc = "compression" /\ remaining = 0
    /\ pc' = "manifest"
    /\ current_offset' = cdh_start_offset
    /\ remaining' = cdh_count
    /\ UNCHANGED <<img, orig, calls, ret, raised, outcome, eocd_offset, cdh_count,
                   cdh_start_offset, compression_patched, manifest_patched,
                   visitedC, visitedM>>
    /\ NoNodeStep

\* one iteration of the loop of _patch_manifest_signature; after a break the
\* generator is not resumed
ManifestStep ==
    /\ pc = "manifest" /\ remaining > 0
    /\ LET b == ManifestBody(img, current_offset)
           adv == _iter_cdh_advance(b.img, current_offset)
           isPatched == manifest_patched \/ b.patched
       IN  /\ img' = b.img
           /\ manifest_patched' = isPatched
           /\ visitedM' = Append(visitedM,
                                 [cdh |-> current_offset, lfh |-> b.lfh,
                                  data |-> b.data,
                                  sig |-> is_valid_signature(img, current_offset),
                                  matched |-> b.matched, patched |-> b.patched])
           /\ IF b.raised \/ (b.ctl = "continue" /\ adv.raised)
              THEN Swallow(compression_patched \/ isPatched)
                   /\ UNCHANGED <<current_offset, remaining>>
              ELSE /\ current_offset' = IF b.ctl = "break" THEN current_offset ELSE adv.next
                   /\ remaining' = IF b.ctl = "break" THEN 0 ELSE remaining - 1
                   /\ UNCHANGED <<pc, raised, outcome, ret>>
    /\ UNCHANGED <<orig, calls, eocd_offset, cdh_count, cdh_start_offset,
                   compression_patched, visitedC>>
    /\ NoNodeStep

\* lines 333 and 67
PatchReturn ==
    /\ pc = "manifest" /\ remaining = 0
    /\ pc' = "done"
    /\ outcome' = "returned"
    /\ ret' = (compression_patched \/ manifest_patched)
    /\ UNCHANGED <<img, orig, calls, raised, eocd_offset, cdh_count, cdh_start_offset,
                   current_offset, remaining, compression_patched, manifest_patched,
                   visitedC, visitedM>>
    /\ NoNodeStep

NodeInitIdle ==
    /\ heap = <<>> /\ cache = <<>> /\ stack = <<>> /\ rpc = "idle"
    /\ rroot = 0 /\ rflag = FALSE /\ rresult = <<>> /\ rcalls = 0
    /\ returned = {}
    /\ RestInitIdle

PatchInit ==
    /\ \E es \in EntrySeqs : \E a \in AnomaliesFor(es) : img = BuildImage(es, a)
    /\ orig = img
    /\ pc = "idle" /\ calls = 0 /\ ret = FALSE /\ raised = FALSE /\ outcome = "none"
    /\ eocd_offset = -1 /\ cdh_count = 0 /\ cdh_start_offset = 0
    /\ current_offset = 0 /\ remaining = 0
    /\ compression_patched = FALSE /\ manifest_patched = FALSE
    /\ visitedC = <<>> /\ visitedM = <<>>
    /\ NodeInitIdle

\* the steps of a running call
PatchRun ==
    \/ FindEocd \/ ParseEocd \/ CompressionStep \/ CompressionReturn
    \/ ManifestStep \/ PatchReturn

PatchNext == PatchCall \/ PatchRun

SpecPatch == PatchInit /\ [][PatchNext]_vars

\* ------------------------------------------------------------------------
\* Notions the claims about ApkPatcher use.

\* the cursors _iter_cdh yields on an image nobody writes, up to the first
\* header that does not lie in the buffer
RECURSIVE WalkCursors(_, _, _)
WalkCursors(image, cur, n) ==
    IF n = 0 \/ ~InBuffer(image, cur, 46) THEN <<>>
    ELSE <<cur>> \o WalkCursors(image, _iter_cdh_advance(image, cur).next, n - 1)

\* the entries of the central directory the EOCD record of image announces
Entries(image) ==
    LET e == rfind(image, EOCD_SIGNATURE)
    IN  IF e = -1 \/ ~InBuffer(image, e, 22) THEN <<>>
        ELSE WalkCursors(image, unpack_I(image, e + 16), unpack_H(image, e + 10))

LfhOf(image, c) == unpack_I(image, c + 42)

DataOf(image, c) ==
    LfhOf(image, c) + 30 + unpack_H(image, LfhOf(image, c) + 26)
    + unpack_H(image, LfhOf(image, c) + 28)

\* A regularly laid out ZIP image: the EOCD record is whole and its count is
\* honoured, every CDH lies before the EOCD record, every local record (LFH,
\* name, extra, data of at least one byte) lies before the central directory,
\* and no two local records overlap.
RegularLayout(image) ==
    LET e == rfind(image, EOCD_SIGNATURE)
        w == Entries(image)
        EndOf(c) == DataOf(image, c)
                    + (IF unpack_I(image, c + 24) = 0 THEN 1 ELSE unpack_I(image, c + 24))
    IN  /\ e # -1 /\ InBuffer(image, e, 22)
        /\ Len(w) = unpack_H(image, e + 10)
        /\ \A k \in 1 .. Len(w) :
              /\ _iter_cdh_advance(image, w[k]).next <= e
              /\ InBuffer(image, LfhOf(image, w[k]), 30)
              /\ EndOf(w[k]) <= unpack_I(image, e + 16)
        /\ \A j, k \in 1 .. Len(w) :
              j < k => \/ EndOf(w[j]) <= LfhOf(image, w[k])
                       \/ EndOf(w[k]) <= LfhOf(image, w[j])

IsManifestName(image, c) ==
    Slice(image, c + 46, c + 46 + Len(expected_file_name)) = expected_file_name

FieldRange(base, off, size) ==
    IF base < 0 THEN {} ELSE (base + off) .. (base + off + size - 1)

\* the offsets of the fields C7 lists, for the entries visited so far
PatchableOffsets ==
    UNION {FieldRange(visitedC[k].cdh, 10, 2) \cup FieldRange(visitedC[k].cdh, 20, 4)
           \cup FieldRange(visitedC[k].lfh, 8, 2) \cup FieldRange(visitedC[k].lfh, 18, 4)
             : k \in 1 .. Len(visitedC)}
    \cup UNION {FieldRange(visitedM[k].cdh, 16, 4) \cup FieldRange(visitedM[k].lfh, 14, 4)
                \cup FieldRange(visitedM[k].data, 0, 1)
                  : k \in {j \in 1 .. Len(visitedM) : visitedM[j].matched}}

ChangedOffsets == {o \in 0 .. Len(orig) - 1 : ByteAt(img, o) # ByteAt(orig, o)}

\* ------------------------------------------------------------------------
\* Claims about ApkPatcher.

\* C1 (as claimed): patch called twice in a row: the second call changes no
\* byte of the image and returns False.
C1_SecondPatchIsNoOp ==
    (pc = "done" /\ calls >= 2) => (img = orig /\ ret = FALSE)

\* C2 (as claimed): after patch returns, the compression method at CDH+10 of
\* every entry the CDH walk visited is in the valid set.
C2_VisitedMethodsValid ==
    pc = "done" =>
        \A k \in 1 .. Len(visitedC) :
            InBuffer(img, visitedC[k].cdh + 10, 2)
            => unpack_H(img, visitedC[k].cdh + 10) \in VALID_COMPRESSION_METHODS

\* C3 (as claimed): after patch returns, every entry whose method is STORED
\* has compressed size equal to uncompressed size, and the method and the
\* compressed size of its LFH equal those of the CDH.
C3_StoredEntriesConsistent ==
    pc = "done" =>
        \A k \in 1 .. Len(visitedC) :
            LET c == visitedC[k].cdh
            IN  (InBuffer(img, c, 46) /\ unpack_H(img, c + 10) = 0
                 /\ InBuffer(img, LfhOf(img, c), 30))
                => /\ Bytes4(img, c + 20) = Bytes4(img, c + 24)
                   /\ unpack_H(img, LfhOf(img, c) + 8) = 0
                   /\ Bytes4(img, LfhOf(img, c) + 18) = Bytes4(img, c + 20)

\* C3 (amended): on a regularly laid out image, after patch returns, every
\* entry whose method was invalid before the call has method 0 in CDH and
\* LFH and the uncompressed size as compressed size in CDH and LFH; an entry
\* whose method was valid before the call, STORED included, keeps its method
\* and sizes as they were, equal or not.
C3_PatchedEntriesConsistent ==
    (pc = "done" /\ RegularLayout(orig)) =>
        \A k \in 1 .. Len(Entries(orig)) :
            LET c == Entries(orig)[k]
                lfh == LfhOf(orig, c)
            IN  IF unpack_H(orig, c + 10) \notin VALID_COMPRESSION_METHODS
                THEN /\ unpack_H(img, c + 10) = 0
                     /\ Bytes4(img, c + 24) = Bytes4(orig, c + 24)
                     /\ Bytes4(img, c + 20) = Bytes4(orig, c + 24)
                     /\ unpack_H(img, lfh + 8) = 0
                     /\ Bytes4(img, lfh + 18) = Bytes4(orig, c + 24)
                ELSE /\ Slice(img, c + 10, c + 12) = Slice(orig, c + 10, c + 12)
                     /\ Slice(img, c + 20, c + 28) = Slice(orig, c + 20, c + 28)
                     /\ Slice(img, lfh + 8, lfh + 10) = Slice(orig, lfh + 8, lfh + 10)
                     /\ Slice(img, lfh + 18, lfh + 22) = Slice(orig, lfh + 18, lfh + 22)

\* C3 witness: a call on a regular image has returned; one entry had an
\* invalid method, another was STORED with a compressed size that differs.
C3_Witness ==
    /\ pc = "done" /\ RegularLayout(orig)
    /\ \E k \in 1 .. Len(Entries(orig)) :
          unpack_H(orig, Entries(orig)[k] + 10) \notin VALID_COMPRESSION_METHODS
    /\ \E k \in 1 .. Len(Entries(orig)) :
          /\ unpack_H(orig, Entries(orig)[k] + 10) = 0
          /\ Bytes4(img, Entries(orig)[k] + 20) # Bytes4(img, Entries(orig)[k] + 24)

\* the CRC-32 of the stored bytes of the entry at c: uncompressed_size bytes
\* from the data offset
StoredCrc(image, c) ==
    CrcLE(zlib_crc32(Slice(image, DataOf(image, c),
                           DataOf(image, c) + unpack_I(image, c + 24)),
                     <<0, 0>>))

\* C4 (as claimed): after patch returns, every entry named
\* AndroidManifest.xml whose method is STORED has 0x03 as first data byte and
\* the CRC-32 of its stored bytes in CDH+16 and LFH+14.
C4_EveryStoredManifestRepaired ==
    pc = "done" =>
        \A k \in 1 .. Len(visitedC) :
            LET c == visitedC[k].cdh
            IN  (/\ InBuffer(img, c, 46) /\ unpack_H(img, c + 28) = Len(expected_file_name)
                 /\ IsManifestName(img, c) /\ unpack_H(img, c + 10) = 0
                 /\ InBuffer(img, LfhOf(img, c), 30) /\ DataOf(img, c) < Len(img))
                => /\ ByteAt(img, DataOf(img, c)) = 3
                   /\ Bytes4(img, c + 16) = StoredCrc(img, c)
                   /\ Bytes4(img, LfhOf(img, c) + 14) = StoredCrc(img, c)

\* the entries of w the manifest pass takes for a STORED manifest
StoredManifests(image, w) ==
    {k \in 1 .. Len(w) : IsManifestName(image, w[k]) /\ unpack_H(image, w[k] + 10) = 0}

\* C4 (amended): on a regularly laid out image, after patch returns, the
\* first entry in walk order whose filename field begins with
\* AndroidManifest.xml and whose method is STORED has 0x03 as first data
\* byte; if the call overwrote that byte, CDH+16 and LFH+14 both hold the
\* CRC-32 of the uncompressed-size bytes at its data offset, and if the byte
\* was 0x03 already both CRC fields are as they were before the call; every
\* later such entry keeps its first data byte and CRC fields.
C4_FirstStoredManifestRepaired ==
    (pc = "done" /\ RegularLayout(orig)) =>
        LET w == Entries(orig)
            M == StoredManifests(img, w)
        IN  \A k \in M :
                LET c == w[k]
                    lfh == LfhOf(orig, c)
                    d == DataOf(orig, c)
                IN  IF \A j \in M : k <= j
                    THEN /\ ByteAt(img, d) = 3
                         /\ IF ByteAt(orig, d) # 3
                            THEN /\ Bytes4(img, c + 16) = StoredCrc(img, c)
                                 /\ Bytes4(img, lfh + 14) = StoredCrc(img, c)
                            ELSE /\ Bytes4(img, c + 16) = Bytes4(orig, c + 16)
                                 /\ Bytes4(img, lfh + 14) = Bytes4(orig, lfh + 14)
                    ELSE /\ ByteAt(img, d) = ByteAt(orig, d)
                         /\ Bytes4(img, c + 16) = Bytes4(orig, c + 16)
                         /\ Bytes4(img, lfh + 14) = Bytes4(orig, lfh + 14)

\* C4 witness: a call on a regular image with two STORED manifest entries has
\* overwritten the first byte of the first and left the second, whose first
\* byte is not 0x03.
C4_Witness ==
    /\ pc = "done" /\ RegularLayout(orig) /\ manifest_patched
    /\ \E k \in StoredManifests(img, Entries(orig)) :
          ByteAt(img, DataOf(img, Entries(orig)[k])) # 3

\* C5: patch never propagates an error: a call ends by returning a boolean,
\* False whenever a step raised; it does end, since each of its two passes
\* takes at most cdh_count iterations.
C5_PatchAlwaysReturns ==
    /\ pc = "done" => (outcome = "returned" /\ ret \in BOOLEAN
                       /\ (raised => ret = FALSE))
    /\ pc \in {"idle", "find_eocd", "parse_eocd", "compression", "manifest", "done"}
    /\ remaining >= 0
    /\ pc = "compression" => Len(visitedC) + remaining = cdh_count
    /\ pc = "manifest" => Len(visitedM) + remaining <= cdh_count

\* C5 witness: a call has ended after a step raised part-way through the
\* central directory.
C5_Witness == pc = "done" /\ raised /\ Len(visitedC) > 0

\* C6 (as claimed): patch returns True if any part of the image was patched
\* and False otherwise, so after a False the image is as it was.
C6_ReturnTellsWhetherPatched == pc = "done" => (ret <=> img # orig)

C8_EocdIsRightmost ==
    (calls >= 1 /\ pc # "find_eocd") =>
        IF \A o \in 0 .. Len(orig) - 1 : Slice(orig, o, o + 4) # EOCD_SIGNATURE
        THEN pc = "done" /\ outcome = "returned" /\ ret = FALSE /\ img = orig
        ELSE /\ Slice(orig, eocd_offset, eocd_offset + 4) = EOCD_SIGNATURE
             /\ \A o \in eocd_offset + 1 .. Len(orig) - 1 :
                   Slice(orig, o, o + 4) # EOCD_SIGNATURE

\* C8 witness: the signature occurs twice and the search has returned.
C8_Witness ==
    /\ pc = "parse_eocd"
    /\ \E o \in 0 .. eocd_offset - 1 : Slice(img, o, o + 4) = EOCD_SIGNATURE

\* ------------------------------------------------------------------------
\* Value nodes (valuenode.py). A string is a sequence of characters; a node
\* is identified by its key in heap (its id()); a Python value held by a
\* Primitive or as the data of a BytecodeOps is a str or None.

Str(chars) == [py |-> "str", s |-> chars]
PyNone == [py |-> "None", s |-> <<>>]

\* str(value)
str(value) == IF value.py = "None" THEN <<"N", "o", "n", "e">> ELSE value.s

Digits == {"0", "1", "2", "3", "4", "5", "6", "7", "8", "9"}

RECURSIVE StripLeadingZeros(_)
StripLeadingZeros(s) ==
    IF Len(s) > 1 /\ s[1] = "0" THEN StripLeadingZeros(Tail(s)) ELSE s

RECURSIVE StripTrailingZeros(_)
StripTrailingZeros(s) ==
    IF Len(s) > 1 /\ s[Len(s)] = "0" THEN StripTrailingZeros(SubSeq(s, 1, Len(s) - 1))
    ELSE s

\* int(s) succeeds on a str of decimal digits (no sign, blank or underscore
\* occurs in the values of the model)
IsIntLiteral(s) == Len(s) > 0 /\ \A i \in 1 .. Len(s) : s[i] \in Digits

\* str(int(s))
IntStr(s) == StripLeadingZeros(s)

\* str(bool(int(s)))
BoolStr(s) ==
    IF \A i \in 1 .. Len(s) : s[i] = "0" THEN <<"F", "a", "l", "s", "e">>
    ELSE <<"T", "r", "u", "e">>

DotsOf(s) == {i \in 1 .. Len(s) : s[i] = "."}

\* float(s) succeeds on digits with at most one point and at least one digit
IsFloatLiteral(s) ==
    /\ \A i \in 1 .. Len(s) : s[i] \in Digits \cup {"."}
    /\ Cardinality(DotsOf(s)) <= 1
    /\ Cardinality(DotsOf(s)) < Len(s)

\* str(float(s)), for the short literals of the model (no exponent form)
FloatStr(s) ==
    LET d == IF DotsOf(s) = {} THEN Len(s) + 1 ELSE CHOOSE i \in DotsOf(s) : TRUE
        ip == SubSeq(s, 1, d - 1)
        fp == SubSeq(s, d + 1, Len(s))
    IN  (IF ip = <<>> THEN <<"0">> ELSE StripLeadingZeros(ip))
        \o <<".">> \o (IF fp = <<>> THEN <<"0">> ELSE StripTrailingZeros(fp))

\* str(evaluateArgument(argument, typeHint)); int(None) and float(None) raise
\* TypeError, which the except ValueError clause does not catch
evaluateArgument(argument, typeHint) ==
    IF typeHint \in {"I", "B", "S", "J"}
    THEN IF argument.py = "None" THEN [raised |-> TRUE, s |-> <<>>]
         ELSE IF IsIntLiteral(argument.s) THEN [raised |-> FALSE, s |-> IntStr(argument.s)]
         ELSE [raised |-> FALSE, s |-> str(argument)]
    ELSE IF typeHint = "Z"
    THEN IF argument.py = "None" THEN [raised |-> TRUE, s |-> <<>>]
         ELSE IF IsIntLiteral(argument.s) THEN [raised |-> FALSE, s |-> BoolStr(argument.s)]
         ELSE [raised |-> FALSE, s |-> str(argument)]
    ELSE IF typeHint \in {"F", "D"}
    THEN IF argument.py = "None" THEN [raised |-> TRUE, s |-> <<>>]
         ELSE IF IsFloatLiteral(argument.s)
         THEN [raised |-> FALSE, s |-> FloatStr(argument.s)]
         ELSE [raised |-> FALSE, s |-> str(argument)]
    ELSE [raised |-> FALSE, s |-> str(argument)]

\* the three node classes, as records of one shape
Primitive(value, value_type) ==
    [kind |-> "Primitive", value |-> value, value_type |-> value_type,
     method |-> <<>>, strFormat |-> <<>>, children |-> <<>>]

MethodCall(method, argumentNodes) ==
    [kind |-> "MethodCall", value |-> PyNone, value_type |-> "None",
     method |-> method, strFormat |-> <<>>, children |-> argumentNodes]

BytecodeOps(strFormat, operands, data) ==
    [kind |-> "BytecodeOps", value |-> data, value_type |-> "None",
     method |-> <<>>, strFormat |-> strFormat, children |-> operands]

\* _getChildren
_getChildren(node) == node.children

\* a format template: literal characters and the fields {srcK} and {data}
Lit(c) == [t |-> "lit", c |-> c, k |-> 0]
Src(k) == [t |-> "src", c |-> "", k |-> k]
Data == [t |-> "data", c |-> "", k |-> 0]

RECURSIVE Join(_, _)
\* sep.join(strs)
Join(strs, sep) ==
    IF strs = <<>> THEN <<>>
    ELSE IF Len(strs) = 1 THEN strs[1]
    ELSE strs[1] \o sep \o Join(Tail(strs), sep)

RECURSIVE Format(_, _, _)
\* strFormat.format(src0=..., ..., data=...); a field that names no operand
\* raises KeyError
Format(fmt, operandStrs, dataStr) ==
    IF fmt = <<>> THEN [raised |-> FALSE, s |-> <<>>]
    ELSE LET rest == Format(Tail(fmt), operandStrs, dataStr)
             head == fmt[1]
         IN  IF head.t = "src" /\ head.k >= Len(operandStrs)
             THEN [raised |-> TRUE, s |-> <<>>]
             ELSE [raised |-> rest.raised,
                   s |-> (IF head.t = "lit" THEN <<head.c>>
                          ELSE IF head.t = "data" THEN dataStr
                          ELSE operandStrs[head.k + 1]) \o rest.s]

\* _assembleResolvedString of the three classes
_assembleResolvedString(node, childStrs, evaluateArgs) ==
    IF node.kind = "Primitive"
    THEN IF evaluateArgs THEN evaluateArgument(node.value, node.value_type)
         ELSE [raised |-> FALSE, s |-> str(node.value)]
    ELSE IF node.kind = "MethodCall"
    THEN [raised |-> FALSE,
          s |-> node.method \o <<"(">> \o Join(childStrs, <<",">>) \o <<")">>]
    ELSE Format(node.strFormat, childStrs, str(node.value))

\* ------------------------------------------------------------------------
\* The node graphs of the model: node 1 is a Primitive, node 2 a BytecodeOps
\* and node 3 a MethodCall; operands and arguments are any of the three, so
\* that the graphs include shared children and cycles.

NodeIds == {1, 2, 3}

PrimitiveChoices ==
    {Primitive(Str(<<"0", "7">>), "I"), Primitive(Str(<<"x">>), "Z"),
     Primitive(Str(<<"1", ".">>), "F"), Primitive(PyNone, "None")}

BytecodeOpsChoices ==
    {BytecodeOps(<<Lit("-"), Src(0), Data>>, <<a>>, Str(<<"d">>)) : a \in NodeIds}
    \cup {BytecodeOps(<<Src(1)>>, <<1>>, PyNone)}

MethodCallChoices ==
    {MethodCall(<<"m">>, args) : args \in {<<>>, <<1>>, <<2>>, <<3>>, <<1, 2>>, <<2, 1>>}}

\* the nodes reachable from the nodes of set through children
RECURSIVE ReachableFrom(_, _)
ReachableFrom(h, set) ==
    LET more == set \cup UNION {{h[n].children[i] : i \in 1 .. Len(h[n].children)} : n \in set}
    IN  IF more = set THEN set ELSE ReachableFrom(h, more)

ChildrenOf(h, n) == {h[n].children[i] : i \in 1 .. Len(h[n].children)}

\* n is reachable from itself through its children
OnCycle(h, n) == ChildrenOf(h, n) # {} /\ n \in ReachableFrom(h, ChildrenOf(h, n))

\* the graph under root contains a cycle
HasCycle(h, root) == \E n \in ReachableFrom(h, {root}) : OnCycle(h, n)

\* ------------------------------------------------------------------------
\* iterativeResolve, one loop iteration per step. __resolvedCache holds its
\* values weakly: an entry lives until the collector of the interpreter
\* frees the wrapper nobody else references, which may be at once
\* (reference counting) or at any later moment.

PatchInitIdle ==
    /\ img = <<>> /\ orig = <<>>
    /\ pc = "idle" /\ calls = 0 /\ ret = FALSE /\ raised = FALSE /\ outcome = "none"
    /\ eocd_offset = -1 /\ cdh_count = 0 /\ cdh_start_offset = 0
    /\ current_offset = 0 /\ remaining = 0
    /\ compression_patched = FALSE /\ manifest_patched = FALSE
    /\ visitedC = <<>> /\ visitedM = <<>>
    /\ RestInitIdle

NoPatchStep == UNCHANGED <<patchVars, restVars>>

ResolveInit ==
    /\ \E p \in PrimitiveChoices : \E b \in BytecodeOpsChoices : \E m \in MethodCallChoices :
           heap = <<p, b, m>>
    /\ cache = <<>> /\ stack = <<>> /\ rpc = "idle"
    /\ rroot = 0 /\ rflag = FALSE /\ rresult = <<>> /\ rcalls = 0
    /\ returned = {}
    /\ PatchInitIdle

OnStack(n) == \E i \in 1 .. Len(stack) : stack[i].node = n

Top == stack[Len(stack)]

\* node.resolve(evaluateArgs): stack = [(node, [])]
ResolveCall(n, evaluateArgs) ==
    /\ rpc # "running"
    /\ rcalls < MaxResolveCalls
    /\ rcalls' = rcalls + 1
    /\ rroot' = n /\ rflag' = evaluateArgs
    /\ stack' = <<[node |-> n, childStrs |-> <<>>]>>
    /\ rpc' = "running"
    /\ rresult' = <<>>
    /\ UNCHANGED <<heap, cache, returned>>
    /\ NoPatchStep

\* the next child has a live cache entry: its string is taken as it is
ResolveCached ==
    /\ rpc = "running"
    /\ Len(Top.childStrs) < Len(_getChildren(heap[Top.node]))
    /\ LET child == _getChildren(heap[Top.node])[Len(Top.childStrs) + 1]
       IN  /\ child \in DOMAIN cache
           /\ stack' = [stack EXCEPT ![Len(stack)].childStrs = Append(@, cache[child])]
    /\ UNCHANGED <<heap, cache, rpc, rroot, rflag, rresult, rcalls, returned>>
    /\ NoPatchStep

\* the next child has no cache entry: it is pushed. A child that is already
\* on the stack lies on a cycle; no node of a cycle is ever popped, so none
\* gets a cache entry and the loop pushes without end: the call diverges.
ResolveDescend ==
    /\ rpc = "running"
    /\ Len(Top.childStrs) < Len(_getChildren(heap[Top.node]))
    /\ LET child == _getChildren(heap[Top.node])[Len(Top.childStrs) + 1]
       IN  /\ child \notin DOMAIN cache
           /\ stack' = Append(stack, [node |-> child, childStrs |-> <<>>])
           /\ rpc' = IF OnStack(child) THEN "diverged" ELSE "running"
    /\ UNCHANGED <<heap, cache, rroot, rflag, rresult, rcalls, returned>>
    /\ NoPatchStep

\* every child has its string: the node is assembled, cached and popped; an
\* exception of the assembly leaves the call
ResolveAssemble ==
    /\ rpc = "running"
    /\ Len(Top.childStrs) = Len(_getChildren(heap[Top.node]))
    /\ LET result == _assembleResolvedString(heap[Top.node], Top.childStrs, rflag)
           popped == SubSeq(stack, 1, Len(stack) - 1)
       IN  IF result.raised
           THEN /\ rpc' = "raised" /\ stack' = <<>>
                /\ UNCHANGED <<cache, rresult, returned>>
           ELSE /\ cache' = (Top.node :> result.s) @@ cache
                /\ IF popped = <<>>
                   THEN /\ rpc' = "returned" /\ stack' = <<>>
                        /\ rresult' = result.s
                        /\ returned' = returned \cup
                               {[node |-> rroot, flag |-> rflag, s |-> result.s]}
                   ELSE /\ stack' = [popped EXCEPT ![Len(popped)].childStrs =
                                         Append(@, result.s)]
                        /\ UNCHANGED <<rpc, rresult, returned>>
    /\ UNCHANGED <<heap, rroot, rflag, rcalls>>
    /\ NoPatchStep

\* the collector frees the wrapper of an entry: the weak dictionary drops it
Collect(n) ==
    /\ n \in DOMAIN cache
    /\ cache' = [k \in DOMAIN cache \ {n} |-> cache[k]]
    /\ UNCHANGED <<heap, stack, rpc, rroot, rflag, rresult, rcalls, returned>>
    /\ NoPatchStep

ResolveNext ==
    \/ \E n \in NodeIds : \E evaluateArgs \in BOOLEAN : ResolveCall(n, evaluateArgs)
    \/ ResolveCached
    \/ ResolveDescend
    \/ ResolveAssemble
    \/ \E n \in NodeIds : Collect(n)

SpecResolve == ResolveInit /\ [][ResolveNext]_vars

\* ------------------------------------------------------------------------
\* Claims about value-node resolution.

RecursionMarker ==
    <<"<", ".", ".", ".", "r", "e", "c", "u", "r", "s", "i", "o", "n", ".", ".", ".", ">">>

Contains(s, sub) ==
    \E i \in 0 .. Len(s) - Len(sub) : SubSeq(s, i + 1, i + Len(sub)) = sub

C10_CycleSafe ==
    /\ rpc # "diverged"
    /\ (rpc = "returned" /\ HasCycle(heap, rroot)) => Contains(rresult, RecursionMarker)

\* the type hint asks for a conversion that the value does not admit
Unconvertible(value, typeHint) ==
    /\ value.py = "str"
    /\ \/ typeHint \in {"I", "B", "S", "J", "Z"} /\ ~IsIntLiteral(value.s)
       \/ typeHint \in {"F", "D"} /\ ~IsFloatLiteral(value.s)

\* C11 (as claimed): no resolve call ends by raising; a Primitive whose value
\* cannot be converted according to its type hint resolves to the string of
\* the raw value, and a BytecodeOps resolves whatever fields its template
\* names.
C11_ResolveNeverRaises ==
    /\ rpc # "raised"
    /\ \A r \in returned :
          (heap[r.node].kind = "Primitive" /\ r.flag
           /\ Unconvertible(heap[r.node].value, heap[r.node].value_type))
          => r.s = str(heap[r.node].value)

\* the bottom-up evaluation of the graph under n: the strings of the
\* children first, in order, then the node itself
RECURSIVE Reference(_, _, _)
Reference(h, n, evaluateArgs) ==
    LET kids == [i \in 1 .. Len(h[n].children) |->
                    Reference(h, h[n].children[i], evaluateArgs)]
    IN  IF \E i \in 1 .. Len(kids) : kids[i].raised
        THEN [raised |-> TRUE, s |-> <<>>]
        ELSE _assembleResolvedString(h[n], [i \in 1 .. Len(kids) |-> kids[i].s],
                                     evaluateArgs)

IterNodeIds == {1, 2, 3, 4, 5}

IterArgs == {<<>>} \cup {<<a>> : a \in IterNodeIds}
            \cup {<<a, b>> : a \in IterNodeIds, b \in IterNodeIds}

IterInit ==
    /\ \E o \in IterNodeIds : \E a4 \in IterArgs : \E a5 \in IterArgs :
          heap = <<Primitive(Str(<<"p">>), "None"), Primitive(Str(<<"2">>), "I"),
                   BytecodeOps(<<Lit("o"), Src(0)>>, <<o>>, PyNone),
                   MethodCall(<<"f">>, a4), MethodCall(<<"g">>, a5)>>
    /\ cache = <<>> /\ stack = <<>> /\ rpc = "idle"
    /\ rroot = 0 /\ rflag = FALSE /\ rresult = <<>> /\ rcalls = 0
    /\ returned = {}
    /\ PatchInitIdle

IterFrame == UNCHANGED <<patchVars, nodeVars, tableVars, callVars, evalVars, regVars>>

\* match node: case MethodCall(): argumentNodes; case BytecodeOps(): operands
IterChildren(node) ==
    IF node.kind \in {"MethodCall", "BytecodeOps"} THEN node.children ELSE <<>>

\* queue.extend(children)
IterExtend(q, children) == q \o children

\* (mutant) every popped node counts as new
IterSeenNever(seen, n) == FALSE

\* id(node) in visited
IterSeen(seen, n) == n \in seen

\* iteratePriorNodes(node, nodeType): visited = set(), queue = deque([node])
IterCall(n, nodeType) ==
    /\ ipc \in {"idle", "done"}
    /\ queue' = <<n>> /\ visited' = {} /\ yielded' = <<>>
    /\ ipc' = "running" /\ iroot' = n /\ itype' = nodeType /\ isteps' = 0
    /\ IterFrame

\* one iteration of while queue: popleft; skip a visited node; else mark it,
\* yield it if it is of the type, extend the deque by its children. The
\* generator is exhausted when the deque is empty.
IterStep ==
    /\ ipc = "running"
    /\ isteps < MaxIterSteps
    /\ LET node == Head(queue)
           rest == Tail(queue)
       IN  IF IterSeen(visited, node)
           THEN /\ queue' = rest
                /\ UNCHANGED <<visited, yielded>>
                /\ ipc' = IF rest = <<>> THEN "done" ELSE "running"
           ELSE /\ visited' = visited \cup {node}
                /\ yielded' = IF heap[node].kind = itype THEN Append(yielded, node)
                              ELSE yielded
                /\ queue' = IterExtend(rest, IterChildren(heap[node]))
                /\ ipc' = IF queue' = <<>> THEN "done" ELSE "running"
    /\ isteps' = isteps + 1
    /\ UNCHANGED <<iroot, itype>>
    /\ IterFrame

IterNext ==
    \/ \E n \in IterNodeIds : \E nodeType \in {"MethodCall", "Primitive"} :
          IterCall(n, nodeType)
    \/ IterStep

SpecIterate == IterInit /\ [][IterNext]_vars

\* ------------------------------------------------------------------------
\* Claims about iteratePriorNodes.

RECURSIVE Dedup(_, _)
\* s without the members of seen and without later repeats
Dedup(s, seen) ==
    IF s = <<>> THEN <<>>
    ELSE IF s[1] \in seen THEN Dedup(Tail(s), seen)
    ELSE <<s[1]>> \o Dedup(Tail(s), seen \cup {s[1]})

RECURSIVE ChildrenInOrder(_, _)
\* the children of the nodes of level, in order
ChildrenInOrder(h, level) ==
    IF level = <<>> THEN <<>>
    ELSE IterChildren(h[level[1]]) \o ChildrenInOrder(h, Tail(level))

RECURSIVE BreadthFirst(_, _, _)
\* the nodes reachable from level, level by level, each at its first discovery
BreadthFirst(h, level, seen) ==
    IF level = <<>> THEN <<>>
    ELSE LET now == seen \cup {level[i] : i \in 1 .. Len(level)}
         IN  level \o BreadthFirst(h, Dedup(ChildrenInOrder(h, level), now), now)

OfType(h, s, t) == LET Is(n) == h[n].kind = t IN SelectSeq(s, Is)

EdgesOf(h, set) ==
    {<<n, i>> : n \in set, i \in 1 .. 2} \cap
    {<<n, i>> \in IterNodeIds \X (1 .. 2) : i <= Len(IterChildren(h[n]))}

\* C13: the generator yields, in breadth-first order starting with the root,
\* exactly the reachable nodes of the requested type, each once; and it
\* terminates on every graph, cyclic or not: each iteration pops one deque
\* element, and only a node visited for the first time adds its children.
C13_IterateBreadthFirstOnce ==
    /\ ipc = "done" =>
          /\ yielded = OfType(heap, BreadthFirst(heap, <<iroot>>, {}), itype)
          /\ {yielded[i] : i \in 1 .. Len(yielded)} =
                 {n \in ReachableFrom(heap, {iroot}) : heap[n].kind = itype}
    /\ \A i, j \in 1 .. Len(yielded) : i # j => yielded[i] # yielded[j]
    /\ ipc \in {"running", "done"} =>
          isteps + Len(queue) = 1 + Cardinality(EdgesOf(heap, visited))
    /\ ipc = "running" => queue # <<>>

\* C13 witness: the generator is exhausted on a cyclic graph in which a
\* node has two parents and two nodes of the type were yielded.
C13_Witness ==
    /\ ipc = "done" /\ HasCycle(heap, iroot) /\ Len(yielded) = 2
    /\ \E n \in visited : \E a, b \in visited :
          /\ a # b
          /\ \E i \in 1 .. Len(heap[a].children) : heap[a].children[i] = n
          /\ \E i \in 1 .. Len(heap[b].children) : heap[b].children[i] = n

\* ------------------------------------------------------------------------
\* TableObject (tableobject.py): hash_table is a Python list of lists;
\* register i is hash_table[i + 1] here.

TableSizes == {0, 2}
TableIndices == -3 .. 2
TableObservations == {"a", "b"}

TableFrame == UNCHANGED <<patchVars, nodeVars, iterVars, callVars, evalVars, regVars>>

TableInit == PatchInitIdle /\ NodeInitIdle

NoRead == [op |-> "none", index |-> 0, outcome |-> "none", value |-> <<>>]

\* list[index] of Python on a list of length n: the position addressed, a
\* negative index counting from the end; 0 stands for IndexError
PyIndex(n, index) ==
    IF 0 <= index /\ index < n THEN index + 1
    ELSE IF -n <= index /\ index < 0 THEN n + index + 1
    ELSE 0

\* (mutant) the observation is put first
ListPrepend(list, var_obj) == <<var_obj>> \o list

\* list.append(var_obj)
ListAppend(list, var_obj) == Append(list, var_obj)

\* TableObject(count_reg)
TableNew(count_reg) ==
    /\ tpc = "none"
    /\ hash_table' = [i \in 1 .. count_reg |-> <<>>]
    /\ tpc' = "ready"
    /\ UNCHANGED <<tlog, tread>>
    /\ TableFrame

\* insert(index, var_obj): IndexError is swallowed
insert(index, var_obj) ==
    /\ tpc = "ready"
    /\ Len(tlog) < MaxInserts
    /\ LET at == PyIndex(Len(hash_table), index)
       IN  hash_table' = IF at = 0 THEN hash_table
                         ELSE [hash_table EXCEPT ![at] = ListAppend(@, var_obj)]
    /\ tlog' = Append(tlog, <<index, var_obj>>)
    /\ tread' = NoRead
    /\ TableFrame
    /\ UNCHANGED tpc

\* getRegValues(index): the list, or None on IndexError
getRegValues(index) ==
    /\ tpc = "ready"
    /\ LET at == PyIndex(Len(hash_table), index)
       IN  tread' = IF at = 0
                    THEN [op |-> "getRegValues", index |-> index,
                          outcome |-> "None", value |-> <<>>]
                    ELSE [op |-> "getRegValues", index |-> index,
                          outcome |-> "list", value |-> hash_table[at]]
    /\ UNCHANGED <<hash_table, tpc, tlog>>
    /\ TableFrame

\* getLatestRegValue(index): hash_table[index][-1]; IndexError leaves the call
getLatestRegValue(index) ==
    /\ tpc = "ready"
    /\ LET at == PyIndex(Len(hash_table), index)
       IN  tread' = IF at = 0 \/ hash_table[at] = <<>>
                    THEN [op |-> "getLatestRegValue", index |-> index,
                          outcome |-> "raised", value |-> <<>>]
                    ELSE [op |-> "getLatestRegValue", index |-> index,
                          outcome |-> "value",
                          value |-> <<hash_table[at][Len(hash_table[at])]>>]
    /\ UNCHANGED <<hash_table, tpc, tlog>>
    /\ TableFrame

TableNext ==
    \/ \E count_reg \in TableSizes : TableNew(count_reg)
    \/ \E index \in TableIndices : \E var_obj \in TableObservations : insert(index, var_obj)
    \/ \E index \in TableIndices : getRegValues(index)
    \/ \E index \in TableIndices : getLatestRegValue(index)

SpecTable == TableInit /\ [][TableNext]_vars

\* ------------------------------------------------------------------------
\* Claims about TableObject.

\* index names one of the registers 0 .. N-1
InRange(index) == 0 <= index /\ index < Len(hash_table)

AllInRange == \A k \in 1 .. Len(tlog) : InRange(tlog[k][1])

RECURSIVE InsertedAt(_, _)
\* the observations log inserts at index, in insertion order
InsertedAt(log, index) ==
    IF log = <<>> THEN <<>>
    ELSE (IF log[1][1] = index THEN <<log[1][2]>> ELSE <<>>)
         \o InsertedAt(Tail(log), index)

\* C14: after inserts at in-range indices only, the stack of register i is
\* the observations inserted at i in insertion order (empty if none),
\* getRegValues(i) returns it, and getLatestRegValue(i) returns the
\* observation inserted at i last.
C14_StackSemantics ==
    (tpc = "ready" /\ AllInRange) =>
        /\ \A i \in 0 .. Len(hash_table) - 1 : hash_table[i + 1] = InsertedAt(tlog, i)
        /\ (tread.op = "getRegValues" /\ InRange(tread.index))
           => (tread.outcome = "list" /\ tread.value = InsertedAt(tlog, tread.index))
        /\ (tread.op = "getLatestRegValue" /\ InRange(tread.index)
            /\ InsertedAt(tlog, tread.index) # <<>>)
           => /\ tread.outcome = "value"
              /\ tread.value = <<InsertedAt(tlog, tread.index)
                                   [Len(InsertedAt(tlog, tread.index))]>>

\* C14 witness: two different observations were inserted at one register,
\* a third at another, and the latest of the first register was read.
C14_Witness ==
    /\ tpc = "ready" /\ AllInRange /\ Len(tlog) = 3
    /\ tlog[1][1] = tlog[3][1] /\ tlog[1][2] # tlog[3][2] /\ tlog[2][1] # tlog[1][1]
    /\ tread.op = "getLatestRegValue" /\ tread.index = tlog[1][1]
    /\ tread.outcome = "value"

\* C15 (as claimed): an insert at an index outside 0..N-1 is dropped, so the
\* stack of every register holds the observations inserted at that very
\* index and no other; a getRegValues at an index outside 0..N-1 returns an
\* empty list.
C15_OutOfRangeIsNoOp ==
    tpc = "ready" =>
        /\ \A i \in 0 .. Len(hash_table) - 1 : hash_table[i + 1] = InsertedAt(tlog, i)
        /\ (tread.op = "getRegValues" /\ ~InRange(tread.index))
           => (tread.outcome = "list" /\ tread.value = <<>>)

\* ------------------------------------------------------------------------
\* DexTraceImp._build_graph and lowerfunc (dextraceapkinfo.py). Signatures
\* and names are strings (sequences of characters); a MethodObject is the
\* record of its class_name, name and descriptor, by which it compares and
\* under which _method_by_sig registers it.

Whitespace == {" "}

RECURSIVE lstrip(_)
lstrip(s) == IF s # <<>> /\ s[1] \in Whitespace THEN lstrip(Tail(s)) ELSE s

RECURSIVE rstrip(_)
rstrip(s) ==
    IF s # <<>> /\ s[Len(s)] \in Whitespace THEN rstrip(SubSeq(s, 1, Len(s) - 1)) ELSE s

\* s.strip()
strip(s) == rstrip(lstrip(s))

\* re.sub(r"\s+", "", s)
NoWhitespace(s) == LET Keeps(c) == c \notin Whitespace IN SelectSeq(s, Keeps)

\* the first position of character c in s, 0 if there is none
IndexOf(s, c) ==
    IF \E i \in 1 .. Len(s) : s[i] = c
    THEN CHOOSE i \in 1 .. Len(s) : s[i] = c /\ \A j \in 1 .. i - 1 : s[j] # c
    ELSE 0

Replace(s, from, to) == [i \in 1 .. Len(s) |-> IF s[i] = from THEN to ELSE s[i]]

\* _normalize_class
_normalize_class(cls) ==
    LET c == strip(cls)
    IN  IF c = <<>> THEN c
        ELSE IF c[1] = "L" /\ c[Len(c)] = ";" THEN Replace(c, ".", "/")
        ELSE IF IndexOf(c, "/") # 0 /\ c[1] # "L" THEN <<"L">> \o c \o <<";">>
        ELSE <<"L">> \o Replace(c, ".", "/") \o <<";">>

\* _normalize_descriptor: blanks are removed from a descriptor with
\* parentheses, then descriptor_to_androguard_format puts one blank between
\* argument types (the descriptors of the model take no argument, so none)
_normalize_descriptor(desc) ==
    LET d == strip(desc)
    IN  IF IndexOf(d, "(") # 0 /\ IndexOf(d, ")") # 0 THEN NoWhitespace(d) ELSE d

MethodObject(class_name, name, descriptor) ==
    [class_name |-> class_name, name |-> name, descriptor |-> descriptor]

\* _to_method_object(raw): the name is kept as it is
_to_method_object(raw) ==
    MethodObject(_normalize_class(raw.class), raw.method,
                 _normalize_descriptor(raw.descriptor))

\* _methodobject_to_dextrace_sig(mo)
_methodobject_to_dextrace_sig(mo) ==
    _normalize_class(strip(mo.class_name)) \o <<"-", ">">> \o strip(mo.name)
    \o NoWhitespace(strip(mo.descriptor))

\* _sig_to_method_object(dextrace_sig): blanks are removed, then the
\* signature is matched against ^(L[^;]+;)->([^(]+)(\(.*\).*)$
_sig_to_method_object(dextrace_sig) ==
    LET sig == NoWhitespace(dextrace_sig)
        semi == IndexOf(sig, ";")
        paren == IndexOf(sig, "(")
    IN  IF /\ semi >= 3 /\ sig[1] = "L"
           /\ Len(sig) >= semi + 2 /\ sig[semi + 1] = "-" /\ sig[semi + 2] = ">"
           /\ paren > semi + 3
           /\ IndexOf(SubSeq(sig, paren, Len(sig)), ")") # 0
        THEN MethodObject(SubSeq(sig, 1, semi), SubSeq(sig, semi + 3, paren - 1),
                          _normalize_descriptor(SubSeq(sig, paren, Len(sig))))
        ELSE MethodObject(<<>>, sig, <<>>)

\* the sort key of items_sorted: (off is None, off or 0, original index)
KeyBefore(a, ia, b, ib) ==
    LET na == IF a.has THEN 0 ELSE 1
        nb == IF b.has THEN 0 ELSE 1
        va == IF a.has THEN a.v ELSE 0
        vb == IF b.has THEN b.v ELSE 0
    IN  \/ na < nb
        \/ na = nb /\ va < vb
        \/ na = nb /\ va = vb /\ ia < ib

\* sorted(enumerate(items), key=...): the original indices, in sorted order
items_sorted(items) ==
    [k \in 1 .. Len(items) |->
        CHOOSE i \in 1 .. Len(items) :
            Cardinality({j \in 1 .. Len(items) :
                            KeyBefore(items[j].off, j, items[i].off, i)}) = k - 1]

\* the call reports of the model: up to MaxCalls calls, each with a caller
\* name, a callee name and an invoke offset or none
CallerNames == {<<"a", "a">>, <<"a", " ", "a">>, <<"b">>}
CalleeNames == {<<"x">>, <<"y">>}
Offsets == {[has |-> FALSE, v |-> 0], [has |-> TRUE, v |-> 4], [has |-> TRUE, v |-> 8]}

ClassC == <<"L", "c", ";">>
NoArgsVoid == <<"(", ")", "V">>

CallChoices ==
    {[caller |-> [class |-> ClassC, method |-> cr, descriptor |-> NoArgsVoid],
      callee |-> [class |-> ClassC, method |-> ce, descriptor |-> NoArgsVoid],
      off |-> o] : cr \in CallerNames, ce \in CalleeNames, o \in Offsets}

Reports == UNION {[1 .. n -> CallChoices] : n \in 0 .. MaxCalls}

CallsFrame == UNCHANGED <<patchVars, nodeVars, iterVars, tableVars, evalVars, regVars>>

CallsInit == PatchInitIdle /\ NodeInitIdle

\* the position of sig among the keys of per_caller, 0 if it is no key
GroupOf(groups, sig) ==
    IF \E g \in 1 .. Len(groups) : groups[g].sig = sig
    THEN CHOOSE g \in 1 .. Len(groups) : groups[g].sig = sig
    ELSE 0

\* DexTraceImp(...): the report is extracted and _build_graph starts
DexTraceNew(report) ==
    /\ cpc = "none"
    /\ api_calls' = report
    /\ cpc' = IF report = <<>> THEN "built" ELSE "collect"
    /\ ci' = 1
    /\ UNCHANGED <<per_caller, calls_by_caller, callers_by_callee, method_by_sig>>
    /\ CallsFrame

\* one iteration of for call in api_calls
CollectStep ==
    /\ cpc = "collect"
    /\ LET call == api_calls[ci]
           caller_mo == _to_method_object(call.caller)
           callee_mo == _to_method_object(call.callee)
           caller_sig == _methodobject_to_dextrace_sig(caller_mo)
           callee_sig == _methodobject_to_dextrace_sig(callee_mo)
           item == [off |-> call.off, callee_sig |-> callee_sig]
           g == GroupOf(per_caller, caller_sig)
       IN  /\ method_by_sig' = method_by_sig \cup {caller_mo, callee_mo}
           /\ per_caller' =
                 IF g = 0 THEN Append(per_caller, [sig |-> caller_sig, items |-> <<item>>])
                 ELSE [per_caller EXCEPT ![g].items = Append(@, item)]
    /\ cpc' = IF ci = Len(api_calls) THEN "group" ELSE "collect"
    /\ ci' = IF ci = Len(api_calls) THEN 1 ELSE ci + 1
    /\ UNCHANGED <<api_calls, calls_by_caller, callers_by_callee>>
    /\ CallsFrame

\* one iteration of for caller_sig, items in per_caller.items(): the items
\* are sorted, enumerated and appended to the list of the caller's object
GroupStep ==
    /\ cpc = "group"
    /\ LET caller_sig == per_caller[ci].sig
           items == per_caller[ci].items
           sorted == items_sorted(items)
           caller_mo == _sig_to_method_object(caller_sig)
           pairs == [k \in 1 .. Len(items) |->
                        <<_sig_to_method_object(items[sorted[k]].callee_sig), k - 1>>]
           before == IF caller_mo \in DOMAIN calls_by_caller
                     THEN calls_by_caller[caller_mo] ELSE <<>>
       IN  /\ calls_by_caller' = (caller_mo :> (before \o pairs)) @@ calls_by_caller
           /\ callers_by_callee' =
                 callers_by_callee \cup {<<pairs[k][1], caller_mo>> : k \in 1 .. Len(pairs)}
           /\ method_by_sig' =
                 method_by_sig \cup {caller_mo} \cup {pairs[k][1] : k \in 1 .. Len(pairs)}
    /\ cpc' = IF ci = Len(per_caller) THEN "built" ELSE "group"
    /\ ci' = ci + 1
    /\ UNCHANGED <<api_calls, per_caller>>
    /\ CallsFrame

\* lowerfunc(method_object)
lowerfunc(method_object) ==
    IF method_object \in DOMAIN calls_by_caller THEN calls_by_caller[method_object]
    ELSE <<>>

CallsNext ==
    \/ \E report \in Reports : DexTraceNew(report)
    \/ CollectStep
    \/ GroupStep

SpecCalls == CallsInit /\ [][CallsNext]_vars

\* ------------------------------------------------------------------------
\* Claims about the call graph.

\* the calls of the report whose caller is the method mo
CallsOf(mo) == {i \in 1 .. Len(api_calls) : _to_method_object(api_calls[i].caller) = mo}

\* call i comes before call j: offsets first, ascending, then the calls
\* without offset; input order breaks ties
ComesBefore(i, j) ==
    LET a == api_calls[i].off
        b == api_calls[j].off
    IN  \/ a.has /\ ~b.has
        \/ a.has /\ b.has /\ a.v < b.v
        \/ a.has = b.has /\ (a.has => a.v = b.v) /\ i < j

\* C16 (as claimed): once the graph is built, lowerfunc of every caller of
\* the report lists exactly that caller's calls, offset-bearing calls first
\* in ascending offset, then those without, input order breaking ties, and
\* the k-th element (from 0) carries call order k.
C16_LowerfuncStableOrder ==
    cpc = "built" =>
        \A i \in 1 .. Len(api_calls) :
            LET mo == _to_method_object(api_calls[i].caller)
                L == lowerfunc(mo)
            IN  /\ Len(L) = Cardinality(CallsOf(mo))
                /\ \A k \in 1 .. Len(L) :
                      /\ L[k][2] = k - 1
                      /\ \E c \in CallsOf(mo) :
                            /\ Cardinality({d \in CallsOf(mo) : ComesBefore(d, c)}) = k - 1
                            /\ L[k][1] = _to_method_object(api_calls[c].callee)

\* ------------------------------------------------------------------------
\* PyEval (quark/evaluator/pyeval.py), the bytecode interpreter: the register
\* table is a TableObject of RegisterObjects, the value nodes are those of
\* valuenode.py.  A signature and a type are sequences of tokens.

RegCount == 3
Registers == 0 .. RegCount - 1

SigVoid == <<"Lc;->f", "(", ")", "V">>
SigObject == <<"Lc;->g", "(", ")", "Lr;">>
SigWide == <<"Lc;->h", "(", ")", "J">>
Signatures == {SigVoid, SigObject, SigWide}
InvokeKinds == {"invoke-static"}
MoveResultKinds == {"move-result", "move-result-object"}
StringType == <<"Ljava/lang/String;">>
ArrayType == <<"[", "I">>
Void == <<"V">>

\* the register lists of an instruction: registers are named once
RegLists ==
    {<<>>} \cup {<<a>> : a \in Registers}
    \cup {pair \in Registers \X Registers : pair[1] # pair[2]}

EvalFrame == UNCHANGED <<patchVars, nodeVars, iterVars, tableVars, callVars, regVars>>

EvalInit == PatchInitIdle /\ NodeInitIdle

\* (mutant) the observation forgets its type
RegisterObjectUntyped(value, value_type) ==
    [value |-> value, called_by_func |-> <<>>, current_type |-> <<>>]

\* RegisterObject(value, value_type=value_type)
RegisterObject(value, value_type) ==
    [value |-> value, called_by_func |-> <<>>, current_type |-> value_type]

\* (mutant) the setter replaces the list
CalledByFuncReplace(reg_obj, called_by_func) ==
    [reg_obj EXCEPT !.called_by_func = <<called_by_func>>]

\* (mutant) the setter puts the call first
CalledByFuncPrepend(reg_obj, called_by_func) ==
    [reg_obj EXCEPT !.called_by_func = <<called_by_func>> \o @]

\* reg.called_by_func = called_by_func: the setter appends
CalledByFuncSetter(reg_obj, called_by_func) ==
    [reg_obj EXCEPT !.called_by_func = Append(@, called_by_func)]

\* table_obj.insert(index, var_obj) on the table value
TableInsert(table, index, var_obj) ==
    LET at == PyIndex(Len(table), index)
    IN  IF at = 0 THEN table ELSE [table EXCEPT ![at] = ListAppend(@, var_obj)]

\* whether register index holds an observation
Defined(table, index) ==
    PyIndex(Len(table), index) # 0 /\ table[PyIndex(Len(table), index)] # <<>>

\* table_obj.getLatestRegValue(index), for a register that holds one
LatestRegValue(table, index) ==
    LET list == table[PyIndex(Len(table), index)] IN list[Len(list)]

\* the return type of a signature: what follows the closing parenthesis
ReturnTypeOf(sig) == SubSeq(sig, IndexOf(sig, ")") + 1, Len(sig))

\* (mutant) the return value is stacked on the earlier ones
PushReturnStacked(stk, node) == Append(stk, node)

\* the single slot of ret_stack takes the return value
PushReturn(stk, node) == <<node>>

Snapshot == [table_obj |-> table_obj, ret_stack |-> ret_stack, enodes |-> enodes]

\* PyEval(apkinfo)
PyEvalNew ==
    /\ epc = "none"
    /\ table_obj' = [i \in 1 .. RegCount |-> <<>>]
    /\ ret_stack' = <<>>
    /\ ret_type' = <<>>
    /\ epc' = "ready"
    /\ UNCHANGED <<enodes, ecount, elast, eprev>>
    /\ EvalFrame

Evaluated(instruction) ==
    /\ ecount' = ecount + 1
    /\ elast' = instruction
    /\ eprev' = Snapshot
    /\ UNCHANGED epc
    /\ EvalFrame

\* the called-by lists after the call was appended to the latest observation
\* of the first k registers of reg_list
RECURSIVE AppendCall(_, _, _, _)
AppendCall(table, reg_list, k, call) ==
    IF k = 0 THEN table
    ELSE LET before == AppendCall(table, reg_list, k - 1, call)
             at == PyIndex(Len(before), reg_list[k])
             n == Len(before[at])
         IN  [before EXCEPT ![at][n] = CalledByFuncSetter(@, call)]

\* _invoke([mnemonic, v_a, ..., signature]).  (The back-fill of a missing
\* operand type needs an observation without a type, which no instruction
\* of the model produces.)
_invoke(mnemonic, reg_list, sig) ==
    /\ epc = "ready"
    /\ ecount < MaxInstructions
    /\ \A i \in 1 .. Len(reg_list) : Defined(table_obj, reg_list[i])
    /\ LET argumentNodes ==
               [i \in 1 .. Len(reg_list) |-> LatestRegValue(table_obj, reg_list[i]).value]
           invoked_state == Len(enodes) + 1
       IN  /\ enodes' = Append(enodes, MethodCall(sig, argumentNodes))
           /\ table_obj' = AppendCall(table_obj, reg_list, Len(reg_list), invoked_state)
           /\ IF ReturnTypeOf(sig) # Void
              THEN /\ ret_stack' = PushReturn(ret_stack, invoked_state)
                   /\ ret_type' = ReturnTypeOf(sig)
              ELSE UNCHANGED <<ret_stack, ret_type>>
           /\ Evaluated([op |-> mnemonic, regs |-> reg_list, dest |-> 0,
                         sig |-> sig, node |-> invoked_state])

\* _move_result([mnemonic, v_dest]), with a return value waiting
_move_result(mnemonic, dest) ==
    /\ epc = "ready"
    /\ ecount < MaxInstructions
    /\ ret_stack # <<>>
    /\ LET pre_ret == ret_stack[Len(ret_stack)]
       IN  /\ table_obj' = TableInsert(table_obj, dest, RegisterObject(pre_ret, ret_type))
           /\ ret_stack' = SubSeq(ret_stack, 1, Len(ret_stack) - 1)
           /\ ret_type' = <<>>
           /\ UNCHANGED enodes
           /\ Evaluated([op |-> mnemonic, regs |-> <<>>, dest |-> dest,
                         sig |-> <<>>, node |-> pre_ret])

\* MOVE_RESULT_WIDE([mnemonic, v_dest]): the pair v_dest, v_dest + 1
MOVE_RESULT_WIDE(dest) ==
    /\ epc = "ready"
    /\ ecount < MaxInstructions
    /\ ret_stack # <<>>
    /\ LET pre_ret == ret_stack[Len(ret_stack)]
           var_obj == RegisterObject(pre_ret, ret_type)
       IN  /\ table_obj' = TableInsert(TableInsert(table_obj, dest, var_obj),
                                       dest + 1, var_obj)
           /\ ret_stack' = SubSeq(ret_stack, 1, Len(ret_stack) - 1)
           /\ ret_type' = <<>>
           /\ UNCHANGED enodes
           /\ Evaluated([op |-> "move-result-wide", regs |-> <<>>, dest |-> dest,
                         sig |-> <<>>, node |-> pre_ret])

\* CONST_STRING([mnemonic, v_dest, literal])
CONST_STRING(dest, literal) ==
    /\ epc = "ready"
    /\ ecount < MaxInstructions
    /\ enodes' = Append(enodes, Primitive(Str(literal), "Ljava/lang/String;"))
    /\ table_obj' = TableInsert(table_obj, dest,
                                RegisterObject(Len(enodes) + 1, StringType))
    /\ UNCHANGED <<ret_stack, ret_type>>
    /\ Evaluated([op |-> "const-string", regs |-> <<>>, dest |-> dest,
                  sig |-> <<>>, node |-> Len(enodes) + 1])

\* FILLED_NEW_ARRAY([mnemonic, v_a, ..., type]): the array expression over
\* the listed registers is the return value
FILLED_NEW_ARRAY(reg_list) ==
    /\ epc = "ready"
    /\ ecount < MaxInstructions
    /\ \A i \in 1 .. Len(reg_list) : Defined(table_obj, reg_list[i])
    /\ LET operands ==
               [i \in 1 .. Len(reg_list) |-> LatestRegValue(table_obj, reg_list[i]).value]
       IN  /\ enodes' = Append(enodes, BytecodeOps(<<Data>>, operands, Str(ArrayType)))
           /\ ret_stack' = PushReturn(ret_stack, Len(enodes) + 1)
           /\ ret_type' = ArrayType
           /\ UNCHANGED table_obj
           /\ Evaluated([op |-> "filled-new-array", regs |-> reg_list, dest |-> 0,
                         sig |-> <<>>, node |-> Len(enodes) + 1])

EvalNext ==
    \/ PyEvalNew
    \/ \E mnemonic \in InvokeKinds, reg_list \in RegLists, sig \in Signatures :
           _invoke(mnemonic, reg_list, sig)
    \/ \E mnemonic \in MoveResultKinds, dest \in Registers : _move_result(mnemonic, dest)
    \/ \E dest \in 0 .. RegCount - 2 : MOVE_RESULT_WIDE(dest)
    \/ \E dest \in Registers : CONST_STRING(dest, <<"s">>)
    \/ \E reg_list \in RegLists : FILLED_NEW_ARRAY(reg_list)

SpecEval == EvalInit /\ [][EvalNext]_vars

\* the registers an instruction names
Named(reg_list) == {reg_list[i] : i \in 1 .. Len(reg_list)}

\* the called-by lists of the observations of register r, oldest first
CalledByLists(table, r) ==
    [k \in 1 .. Len(table[r + 1]) |-> table[r + 1][k].called_by_func]

MovedInvokeResult ==
    /\ elast.op \in MoveResultKinds \cup {"move-result-wide"}
    /\ eprev.ret_stack # <<>>
    /\ enodes[eprev.ret_stack[Len(eprev.ret_stack)]].kind = "MethodCall"

\* register r got one more observation: value node and type as given, the
\* observations it had stay below it
Pushed(r, node, type) ==
    LET before == eprev.table_obj[r + 1]
        now == table_obj[r + 1]
    IN  /\ Len(now) = Len(before) + 1
        /\ SubSeq(now, 1, Len(before)) = before
        /\ now[Len(now)].value = node
        /\ now[Len(now)].current_type = type

\* C19: a move-result, move-result-object or move-result-wide evaluated
\* while ret_stack holds the MethodCall of a value-returning invoke pushes on
\* the destination register a new observation whose value is that MethodCall
\* itself and whose type is the invoke's return type, and leaves ret_stack
\* and ret_type empty; move-result-wide pushes the same value on the
\* register after the destination too.
C19_MoveResultTakesInvoke ==
    MovedInvokeResult =>
        LET call == eprev.ret_stack[Len(eprev.ret_stack)]
            type == <<enodes[call].method[Len(enodes[call].method)]>>
        IN  /\ Pushed(elast.dest, call, type)
            /\ ret_stack = <<>>
            /\ ret_type = <<>>
            /\ elast.op = "move-result-wide" => Pushed(elast.dest + 1, call, type)

\* a move-result-wide of an invoke's value onto a register that already
\* held an observation
C19_Witness ==
    /\ MovedInvokeResult
    /\ elast.op = "move-result-wide"
    /\ eprev.table_obj[elast.dest + 1] # <<>>

\* ------------------------------------------------------------------------
\* A further claim about ApkPatcher.

\* the image after the four writes the claim lists, made in its order, for the
\* entry at cur whose LFH offset field reads lfh
FourWrites(image, cur, lfh) ==
    LET size == Bytes4(image, cur + 24)
    IN  pack_I(pack_H(pack_I(pack_H(image, cur + 10, 0), cur + 20, size),
                      lfh + 8, 0),
               lfh + 18, size)

\* C20 (as claimed): an iteration of _patch_invalid_compression_method on a
\* CDH whose method is not in the valid set writes 0 to CDH+10, the four
\* bytes of CDH+24 to CDH+20, 0 to LFH+8 and the same four bytes to LFH+18,
\* LFH being the offset read from CDH+42, whatever the LFH signature is; an
\* iteration on a CDH whose method is valid changes no byte; and when the
\* routine returns, it returns True iff an entry was patched.
C20_InvalidCompressionPatch ==
    [][/\ (/\ pc = "compression" /\ remaining > 0
           /\ InBuffer(img, current_offset + 10, 2)
           /\ InBuffer(img, current_offset + 42, 4))
          => LET cur == current_offset
                 lfh == unpack_I(img, cur + 42)
             IN  IF unpack_H(img, cur + 10) \in VALID_COMPRESSION_METHODS
                 THEN img' = img
                 ELSE /\ InBuffer(img, lfh + 8, 14)
                      /\ img' = FourWrites(img, cur, lfh)
       /\ (pc = "compression" /\ remaining = 0)
          => (compression_patched <=>
                  \E k \in 1 .. Len(visitedC) : visitedC[k].patched)]_vars

\* ------------------------------------------------------------------------
\* Claims about the manifest-signature pass of ApkPatcher.

\* the entry at c is named AndroidManifest.xml: its filename field, of the
\* length stored at CDH+28, is exactly those bytes
NamedManifest(image, c) ==
    /\ unpack_H(image, c + 28) = Len(expected_file_name)
    /\ Slice(image, c + 46, c + 46 + unpack_H(image, c + 28)) = expected_file_name

\* C21 (as claimed): the manifest-signature pass takes an entry for the
\* manifest only if its filename field, of the length stored at CDH+28, is
\* exactly AndroidManifest.xml; an entry whose longer name begins with
\* AndroidManifest.xml is never patched.
C21_ManifestNameExact ==
    \A k \in 1 .. Len(visitedM) :
        visitedM[k].patched => NamedManifest(orig, visitedM[k].cdh)

\* the entry at c is a STORED entry named AndroidManifest.xml
StoredManifest(image, c) ==
    InBuffer(image, c, 46) /\ NamedManifest(image, c) /\ unpack_H(image, c + 10) = 0

\* C22 (as claimed): the manifest-signature pass overwrites the first data
\* byte of at most one entry; the first STORED entry named
\* AndroidManifest.xml is where it stops, patched or not; an entry of that
\* name whose method is not STORED is passed over; and the pass returns True
\* iff it overwrote a first data byte.
C22_AtMostOneManifest ==
    /\ Cardinality({k \in 1 .. Len(visitedM) : visitedM[k].patched}) <= 1
    /\ \A k \in 1 .. Len(visitedM) :
           LET c == visitedM[k].cdh
           IN  /\ StoredManifest(img, c) => k = Len(visitedM)
               /\ (InBuffer(img, c, 46) /\ NamedManifest(img, c)
                   /\ unpack_H(img, c + 10) # 0) => ~visitedM[k].patched
    /\ (pc = "done" /\ ~raised) =>
           /\ manifest_patched <=> \E k \in 1 .. Len(visitedM) : visitedM[k].patched
           /\ RegularLayout(orig) =>
                  LET w == Entries(orig)
                      S == {k \in 1 .. Len(w) : StoredManifest(img, w[k])}
                  IN  S # {} =>
                          /\ visitedM # <<>>
                          /\ \E k \in S : /\ \A j \in S : k <= j
                                          /\ visitedM[Len(visitedM)].cdh = w[k]

\* C23 (as claimed): when the STORED AndroidManifest.xml entry declares an
\* uncompressed size of 0, the manifest-signature pass writes no byte for
\* it: the step that visits it leaves the image as it is.
C23_ZeroSizeManifestUntouched ==
    [][(/\ pc = "manifest" /\ remaining > 0
        /\ StoredManifest(img, current_offset)
        /\ unpack_I(img, current_offset + 24) = 0)
       => img' = img]_vars

\* ------------------------------------------------------------------------
\* Claims about ApkPatcher._iter_cdh.

\* C24: while the headers visited lie inside the image, _iter_cdh yields
\* the cursor it stands on together with a flag that tells whether the four
\* bytes there are the CDH signature, whatever they are; resumed, it moves
\* the cursor by 46 plus the three 16-bit lengths at +28, +30 and +32 of the
\* header it leaves; the first cursor is the start offset, and a consumer
\* that takes everything gets exactly cdh_count pairs.
C24_IterCdhWalk ==
    [][/\ (pc = "compression" /\ remaining = cdh_count) =>
              current_offset = cdh_start_offset
       /\ (pc = "compression" /\ remaining = 0) => Len(visitedC) = cdh_count
       /\ (/\ pc = "compression" /\ remaining > 0
           /\ InBuffer(img, current_offset, 46))
          => /\ Len(visitedC') = Len(visitedC) + 1
             /\ visitedC'[Len(visitedC')].cdh = current_offset
             /\ visitedC'[Len(visitedC')].sig =
                    (<<ByteAt(img, current_offset), ByteAt(img, current_offset + 1),
                       ByteAt(img, current_offset + 2), ByteAt(img, current_offset + 3)>>
                     = <<80, 75, 1, 2>>)
             /\ pc' = "compression" =>
                    /\ remaining' = remaining - 1
                    /\ current_offset' =
                           current_offset + 46
                           + ByteAt(img', current_offset + 28)
                           + 256 * ByteAt(img', current_offset + 29)
                           + ByteAt(img', current_offset + 30)
                           + 256 * ByteAt(img', current_offset + 31)
                           + ByteAt(img', current_offset + 32)
                           + 256 * ByteAt(img', current_offset + 33)]_vars

\* the walk has yielded two entries, the first with an extra field and a
\* comment of its own, and has come to its end
C24_Witness ==
    /\ pc = "compression" /\ remaining = 0 /\ Len(visitedC) = 2
    /\ unpack_H(img, visitedC[1].cdh + 30) > 0
    /\ unpack_H(img, visitedC[1].cdh + 32) > 0
    /\ visitedC[2].sig

\* ------------------------------------------------------------------------
\* RegisterObject (registerobject.py) on its own, over a graph of value
\* nodes: nodes 1 and 2 are Primitives, node 3 is a BytecodeOps, nodes 4 and
\* 5 are MethodCalls. A type is None or a str.

JavaString ==
    <<"L", "j", "a", "v", "a", "/", "l", "a", "n", "g", "/", "S", "t", "r", "i",
      "n", "g", ";">>

RegisterTypes ==
    {PyNone, Str(<<>>), Str(<<"I">>), Str(JavaString), Str(<<"[", "L">>)}

\* the nodes that are calls
RegisterCalls == {4, 5}

RegisterInit ==
    /\ \E o \in {1, 5} : \E a4 \in {<<>>, <<3>>, <<5, 1>>, <<3, 5>>} :
       \E a5 \in {<<>>, <<4>>, <<2>>} :
          heap = <<Primitive(Str(<<"p">>), "None"), Primitive(Str(<<"2">>), "I"),
                   BytecodeOps(<<Lit("o"), Src(0)>>, <<o>>, PyNone),
                   MethodCall(<<"f">>, a4), MethodCall(<<"g">>, a5)>>
    /\ cache = <<>> /\ stack = <<>> /\ rpc = "idle"
    /\ rroot = 0 /\ rflag = FALSE /\ rresult = <<>> /\ rcalls = 0
    /\ returned = {}
    /\ PatchInitIdle

RegisterFrame ==
    UNCHANGED <<patchVars, nodeVars, iterVars, tableVars, callVars, evalVars>>

\* str.startswith(prefix)
startswith(s, prefix) ==
    Len(s) >= Len(prefix) /\ SubSeq(s, 1, Len(prefix)) = prefix

\* (mutant) an unknown type bears no object
bears_object_typed_only(reg_obj) ==
    reg_obj.current_type.py # "None" /\ startswith(reg_obj.current_type.s, <<"L">>)

\* bears_object
bears_object(reg_obj) ==
    reg_obj.current_type.py = "None" \/ startswith(reg_obj.current_type.s, <<"L">>)

\* what iteratePriorNodes yields from the deque q with visited as given
RECURSIVE PriorNodes(_, _, _, _)
PriorNodes(h, q, seen, nodeType) ==
    IF q = <<>> THEN <<>>
    ELSE LET node == Head(q)
         IN  IF IterSeen(seen, node) THEN PriorNodes(h, Tail(q), seen, nodeType)
             ELSE (IF h[node].kind = nodeType THEN <<node>> ELSE <<>>)
                  \o PriorNodes(h, IterExtend(Tail(q), IterChildren(h[node])),
                                seen \cup {node}, nodeType)

\* iteratePriorCalls(methodCall)
iteratePriorCalls(h, methodCall) == PriorNodes(h, <<methodCall>>, {}, "MethodCall")

\* (mutant) the calls are taken last to first
RECURSIVE iterateInvolvedCallsBackwards(_, _)
iterateInvolvedCallsBackwards(h, called_by_func) ==
    IF called_by_func = <<>> THEN <<>>
    ELSE iterateInvolvedCallsBackwards(h, Tail(called_by_func))
         \o iteratePriorCalls(h, Head(called_by_func))

\* iterateInvolvedCalls: for call in self._called_by_func: yield from ...
RECURSIVE iterateInvolvedCalls(_, _)
iterateInvolvedCalls(h, called_by_func) ==
    IF called_by_func = <<>> THEN <<>>
    ELSE iteratePriorCalls(h, Head(called_by_func))
         \o iterateInvolvedCalls(h, Tail(called_by_func))

Operated(operation) ==
    /\ gpc = "ready"
    /\ gops < MaxRegisterOps
    /\ gops' = gops + 1
    /\ glast' = operation
    /\ gprev' = reg
    /\ UNCHANGED gpc
    /\ RegisterFrame

\* RegisterObject(value, called_by_func, value_type); called_by_func 0 is None
RegisterObjectNew(value, called_by_func, value_type) ==
    /\ gpc = "none"
    /\ reg' = IF called_by_func = 0 THEN RegisterObject(value, value_type)
              ELSE [RegisterObject(value, value_type)
                        EXCEPT !.called_by_func = Append(@, called_by_func)]
    /\ gpc' = "ready"
    /\ UNCHANGED <<gops, glast, gprev>>
    /\ RegisterFrame

\* reg.called_by_func = call
SetCalledByFunc(call) ==
    /\ reg' = CalledByFuncSetter(reg, call)
    /\ Operated([NoOperation EXCEPT !.op = "called_by_func", !.arg = call])

\* reg.value = value
SetValue(value) ==
    /\ reg' = [reg EXCEPT !.value = value]
    /\ Operated([NoOperation EXCEPT !.op = "value", !.arg = value])

\* reg.current_type = value
SetCurrentType(value) ==
    /\ reg' = [reg EXCEPT !.current_type = value]
    /\ Operated([NoOperation EXCEPT !.op = "current_type"])

\* reg.bears_object()
BearsObject ==
    /\ UNCHANGED reg
    /\ Operated([NoOperation EXCEPT !.op = "bears_object", !.flag = bears_object(reg)])

\* list(reg.iterateInvolvedCalls())
IterateInvolvedCalls ==
    /\ UNCHANGED reg
    /\ Operated([NoOperation EXCEPT
                     !.op = "iterateInvolvedCalls",
                     !.out = iterateInvolvedCalls(heap, reg.called_by_func)])

RegisterNext ==
    \/ \E value \in {1, 4} : \E call \in {0} \cup RegisterCalls :
       \E value_type \in RegisterTypes : RegisterObjectNew(value, call, value_type)
    \/ \E call \in RegisterCalls : SetCalledByFunc(call)
    \/ \E value \in {1, 4} : SetValue(value)
    \/ \E value \in RegisterTypes : SetCurrentType(value)
    \/ BearsObject
    \/ IterateInvolvedCalls

SpecRegister == RegisterInit /\ [][RegisterNext]_vars

\* ------------------------------------------------------------------------
\* Claims about RegisterObject.

\* C25: assigning to called_by_func puts the call at the end of the list,
\* which grows by one and keeps its earlier elements where they were; no
\* other operation of RegisterObject changes the list.
C25_CalledByAppendOnly ==
    /\ glast.op = "called_by_func" =>
           /\ Len(reg.called_by_func) = Len(gprev.called_by_func) + 1
           /\ reg.called_by_func[Len(reg.called_by_func)] = glast.arg
           /\ \A i \in 1 .. Len(gprev.called_by_func) :
                  reg.called_by_func[i] = gprev.called_by_func[i]
    /\ glast.op \in {"value", "current_type", "bears_object", "iterateInvolvedCalls"}
           => reg.called_by_func = gprev.called_by_func

\* a call was assigned to a register that already listed two, the first of
\* them another call
C25_Witness ==
    /\ glast.op = "called_by_func"
    /\ Len(gprev.called_by_func) = 2
    /\ gprev.called_by_func[1] # glast.arg

\* the breadth-first MethodCall sequences of the calls of a list, one after
\* the other
RECURSIVE CallSequences(_, _)
CallSequences(h, called_by_func) ==
    IF called_by_func = <<>> THEN <<>>
    ELSE OfType(h, BreadthFirst(h, <<Head(called_by_func)>>, {}), "MethodCall")
         \o CallSequences(h, Tail(called_by_func))

\* C26: iterateInvolvedCalls yields, for each call of the called-by list in
\* list order, the breadth-first sequence of the MethodCall nodes reachable
\* from that call, the call itself first; nothing for an empty list; and
\* every MethodCall reachable from a call of the list is among the yielded.
C26_InvolvedCalls ==
    glast.op = "iterateInvolvedCalls" =>
        /\ glast.out = CallSequences(heap, reg.called_by_func)
        /\ reg.called_by_func = <<>> => glast.out = <<>>
        /\ reg.called_by_func # <<>> => glast.out[1] = reg.called_by_func[1]
        /\ {glast.out[i] : i \in 1 .. Len(glast.out)} =
               {n \in ReachableFrom(heap, {reg.called_by_func[i] :
                                               i \in 1 .. Len(reg.called_by_func)}) :
                    heap[n].kind = "MethodCall"}

\* the register lists two different calls, the first reaches the second
\* through a BytecodeOps and the second reaches the first, and four calls
\* were yielded
C26_Witness ==
    /\ glast.op = "iterateInvolvedCalls"
    /\ reg.called_by_func = <<4, 5>>
    /\ heap[4].children = <<3, 5>> /\ heap[3].children = <<5>>
    /\ heap[5].children = <<4>>
    /\ glast.out = <<4, 5, 5, 4>>

InvalidMethodManifest(image, c) ==
    /\ InBuffer(image, c, 46)
    /\ NamedManifest(image, c)
    /\ unpack_H(image, c + 10) \notin VALID_COMPRESSION_METHODS
    /\ InBuffer(image, LfhOf(image, c), 30)
    /\ InBuffer(image, DataOf(image, c), 1)
    /\ ByteAt(image, DataOf(image, c)) # 3

\* the entry that was at c of before is repaired in after: method 0 in CDH
\* and LFH, first data byte 0x03, both CRC fields the CRC-32 of the data as
\* it now is
RepairedManifest(before, after, c) ==
    LET lfh == LfhOf(before, c)
        data == DataOf(before, c)
        crc == CrcLE(zlib_crc32(Slice(after, data, data + unpack_I(before, c + 24)),
                                <<0, 0>>))
    IN  /\ unpack_H(after, c + 10) = 0
        /\ unpack_H(after, lfh + 8) = 0
        /\ ByteAt(after, data) = 3
        /\ Bytes4(after, c + 16) = crc
        /\ Bytes4(after, lfh + 14) = crc

\* C28 (as claimed): within one call the invalid-compression pass has
\* visited every entry before the manifest-signature pass visits one, and
\* the manifest-signature pass runs even when the first pass has patched;
\* hence an AndroidManifest.xml entry whose method is invalid and whose
\* first data byte is not 0x03 ends one patch call with method 0 in CDH and
\* LFH, first data byte 0x03 and both CRC fields refreshed.
C28_BothPassesInOrder ==
    /\ (pc = "manifest" \/ visitedM # <<>>) => Len(visitedC) = cdh_count
    /\ (pc = "done" /\ ~raised /\ cdh_count > 0) => visitedM # <<>>
    /\ pc = "done" =>
          \A k \in 1 .. Len(Entries(orig)) :
              InvalidMethodManifest(orig, Entries(orig)[k])
              => RepairedManifest(orig, img, Entries(orig)[k])

\* the cursors _iter_cdh yields on an image nobody writes: the cursor is
\* yielded before the length fields are read
RECURSIVE YieldedCursors(_, _, _)
YieldedCursors(image, cur, n) ==
    IF n = 0 THEN <<>>
    ELSE <<cur>> \o (IF _iter_cdh_advance(image, cur).raised THEN <<>>
                     ELSE YieldedCursors(image, _iter_cdh_advance(image, cur).next, n - 1))

\* the cursors of the entries of visits are the first of those of walk
CursorsBegin(visits, walk) ==
    /\ Len(visits) <= Len(walk)
    /\ \A k \in 1 .. Len(visits) : visits[k].cdh = walk[k]

\* C29 (as claimed): no write of the repair changes the walk of the central
\* directory: within one call the CDH offsets the manifest-signature pass
\* visits are the first of those the invalid-compression pass visited, and
\* the offsets a pass visits are those of the walk computed on the image as
\* it was when the pass started (for the manifest-signature pass, which
\* writes once and stops, the image as long as it has not written).
C29_WritesKeepWalk ==
    /\ CursorsBegin(visitedM, [k \in 1 .. Len(visitedC) |-> visitedC[k].cdh])
    /\ pc \in {"compression", "manifest", "done"} =>
           CursorsBegin(visitedC, YieldedCursors(orig, cdh_start_offset, cdh_count))
    /\ (pc = "manifest" /\ ~manifest_patched) =>
           CursorsBegin(visitedM, YieldedCursors(img, cdh_start_offset, cdh_count))
    /\ \A k \in 1 .. Len(visitedM) : visitedM[k].patched => k = Len(visitedM)

\* ------------------------------------------------------------------------
\* A further claim about the call graph.

\* all_methods
all_methods == method_by_sig

\* upperfunc(method_object)
upperfunc(method_object) ==
    {pair[2] : pair \in {e \in callers_by_callee : e[1] = method_object}}

\* the canonical form of a triple: no whitespace in any part
CanonicalTriple(mo) ==
    MethodObject(NoWhitespace(mo.class_name), NoWhitespace(mo.name),
                 NoWhitespace(mo.descriptor))

\* the methods that occur in calls_by_caller or callers_by_callee
GraphMethods ==
    DOMAIN calls_by_caller
    \cup UNION {{calls_by_caller[c][k][1] : k \in 1 .. Len(calls_by_caller[c])} :
                    c \in DOMAIN calls_by_caller}
    \cup {e[1] : e \in callers_by_callee} \cup {e[2] : e \in callers_by_callee}

\* C30 (as claimed): once the graph is built, c is in upperfunc(m) exactly
\* when some pair (m, k) is in lowerfunc(c); every method that occurs as a
\* caller or a callee in either map is in all_methods; and all_methods holds
\* one method object per canonical (class, name, descriptor) triple.
C30_GraphConsistent ==
    cpc = "built" =>
        /\ \A m \in GraphMethods \cup all_methods :
           \A c \in GraphMethods \cup all_methods :
              (c \in upperfunc(m))
              <=> (\E k \in 1 .. Len(lowerfunc(c)) : lowerfunc(c)[k][1] = m)
        /\ GraphMethods \subseteq all_methods
        /\ \A a \in all_methods : \A b \in all_methods :
              CanonicalTriple(a) = CanonicalTriple(b) => a = b

====
